---------------------------- MODULE Spec2Model ----------------------------
(***************************************************************************)
(* A model of the MLIR bytecode reader                                     *)
(* (mlir/lib/Bytecode/Reader/BytecodeReader.cpp).                          *)
(*                                                                         *)
(* Bytes are numbers 0..255.  A uint64_t is a sequence of 8 bytes, least   *)
(* significant first (the layout of the little-endian hosts the reader     *)
(* supports), because the model checker's integers are 32 bits wide.       *)
(* A reader (EncodingReader) is a record [data, pos]: the bytes of the     *)
(* slice and the number of them already consumed (dataIt - data.begin()).  *)
(* Every parsing primitive is an operator from a reader to a record        *)
(* [ok, rd, value, err]: the LogicalResult, the reader afterwards, the     *)
(* value written to the out-parameter and the diagnostic emitted.          *)
(***************************************************************************)
EXTENDS Integers, Sequences, FiniteSets, TLC

VARIABLES
    \* the byte cursor specifications
    reader,             \* the EncodingReader under test
    last,               \* the last primitive applied to it and its outcome
    vx,                 \* the uint64_t whose encoding is being read
    \* readBytecodeFile: the call, its arguments and what the host sees
    pc,                 \* the position of the call
    result,             \* "none" while it runs, then "success" or "failure"
    diags,              \* the diagnostics emitted, each with its note flag
    diagHandler,        \* the ScopedDiagnosticHandler of read() is installed
    buffer,             \* the first bytes of the buffer (at most four)
    window,             \* the bytes of the buffer the last step had at its cursor
    block,              \* the operations of the target block
    allowUnregistered,  \* MLIRContext::allowsUnregisteredDialects()
    log,                \* the calls made so far, in order
    \* BytecodeReader
    version,
    producer,
    sectionDatas,       \* the local of read()
    strings,
    dialects,
    opNames,
    attributes,         \* attrTypeReader.attributes
    types,              \* attrTypeReader.types
    regionStack,        \* the local of parseIRSection
    valueScopes,
    forwardRefOps,
    openForwardRefOps,
    \* the IR built so far
    ops,                \* the operations created by the reader, by id
    blocks,             \* the blocks created by the reader, by id
    placeholders        \* the number of forward reference operations created

cursorVars == <<reader, last, vx>>

callVars == <<pc, result, diags, diagHandler, buffer, window, block,
              allowUnregistered, log>>

tableVars == <<version, producer, sectionDatas, strings, dialects, opNames,
               attributes, types>>

irVars == <<regionStack, valueScopes, forwardRefOps, openForwardRefOps, ops, blocks,
            placeholders>>

readVars == <<callVars, tableVars, irVars>>

vars == <<cursorVars, readVars>>

-----------------------------------------------------------------------------
\* Bounds of the model.

\* uint64_t values 0..MaxSmall are all tried by the varint specification.
MaxSmall == 40
\* The longest buffer of the cursor specification.
MaxBuf == 3
\* The largest length asked of parseBytes / skipBytes.
MaxAsk == 4

-----------------------------------------------------------------------------
\* uint64_t arithmetic on 8-byte little-endian words.

Pow2(n) == CASE n = 0 -> 1 [] n = 1 -> 2 [] n = 2 -> 4 [] n = 3 -> 8 [] n = 4 -> 16
             [] n = 5 -> 32 [] n = 6 -> 64 [] n = 7 -> 128 [] n = 8 -> 256

\* The stand-in for every uint64_t value of 2^31 - 1 or more.
Sat == 2147483647

ZeroWord == <<0, 0, 0, 0, 0, 0, 0, 0>>

\* The uint64_t holding the number n (n < 2^31).
Word(n) == <<n % 256, (n \div 256) % 256, (n \div 65536) % 256,
             (n \div 16777216) % 256, 0, 0, 0, 0>>

\* The number a uint64_t holds, collapsed to Sat from 2^31 - 1 on.
ToNat(w) ==
    IF w[5] = 0 /\ w[6] = 0 /\ w[7] = 0 /\ w[8] = 0 /\ w[4] < 128
    THEN w[1] + 256 * w[2] + 65536 * w[3] + 16777216 * w[4]
    ELSE Sat

\* w >> s, for 0 <= s <= 8.
Shr(w, s) ==
    [i \in 1..8 |-> (w[i] \div Pow2(s))
                    + (((IF i < 8 THEN w[i + 1] ELSE 0) % Pow2(s)) * Pow2(8 - s))]

\* w >> 1 computed wrongly as w >> 2 (a mutant of Shr1).
ShrTwice(w) == Shr(w, 2)

\* result >>= 1
Shr1(w) == Shr(w, 1)

\* w << s truncated to 64 bits, for 0 <= s <= 8.
Shl(w, s) ==
    [i \in 1..8 |-> ((w[i] * Pow2(s)) % 256)
                    + ((IF i > 1 THEN w[i - 1] ELSE 0) \div Pow2(8 - s))]

\* Bit i (0..63) of w.
BitAt(w, i) == (w[(i \div 8) + 1] \div Pow2(i % 8)) % 2

\* w < 2^k
LessPow2(w, k) == \A i \in k..63 : BitAt(w, i) = 0

\* 2^k and 2^k - 1 as words, 0 <= k <= 63 (2^64 - 1 for k = 64).
Pow2Word(k) == [i \in 1..8 |-> IF i = (k \div 8) + 1 THEN Pow2(k % 8) ELSE 0]

Pow2Minus1Word(k) ==
    [i \in 1..8 |-> IF 8 * i <= k THEN 255
                    ELSE IF 8 * (i - 1) < k THEN Pow2(k - 8 * (i - 1)) - 1
                    ELSE 0]

\* llvm::countTrailingZeros of a non-zero byte.
countTrailingZeros(b) ==
    CHOOSE n \in 0..7 : (b \div Pow2(n)) % 2 = 1 /\ b % Pow2(n) = 0

-----------------------------------------------------------------------------
\* EncodingReader

\* A diagnostic: its text with the numbers it prints (0 where it prints none).
Err(msg, a, b) == <<msg, a, b>>

NoErr == Err("", 0, 0)

Reader(contents) == [data |-> contents, pos |-> 0]

empty(rd) == rd.pos = Len(rd.data)

size(rd) == Len(rd.data) - rd.pos

\* The outcome of a primitive; ub records that the call went through undefined
\* behaviour (an access outside a container).
Ok(rd, value) ==
    [ok |-> TRUE, rd |-> rd, value |-> value, err |-> NoErr, ub |-> FALSE]

\* A failure that leaves `value` in the out-parameter.
FailWith(rd, err, value) ==
    [ok |-> FALSE, rd |-> rd, value |-> value, err |-> err, ub |-> FALSE]

Fail(rd, err) == FailWith(rd, err, <<>>)

WithUB(r, ub) == [r EXCEPT !.ub = @ \/ ub]

Advance(rd, n) == [rd EXCEPT !.pos = @ + n]

parseByte(rd) ==
    IF empty(rd)
    THEN Fail(rd, Err("attempting to parse a byte at the end of the bytecode", 0, 0))
    ELSE Ok(Advance(rd, 1), rd.data[rd.pos + 1])

\* parseBytes accepting length = size() + 1 (a mutant of parseBytes); the
\* bytes past the end read as zero.
parseBytesOffByOne(rd, length) ==
    IF length > size(rd) + 1
    THEN Fail(rd, Err("attempting to parse n bytes when only k remain",
                      length, size(rd)))
    ELSE Ok(Advance(rd, length),
            [i \in 1..length |-> IF rd.pos + i <= Len(rd.data)
                                 THEN rd.data[rd.pos + i] ELSE 0])

parseBytes(rd, length) ==
    IF length > size(rd)
    THEN Fail(rd, Err("attempting to parse n bytes when only k remain",
                      length, size(rd)))
    ELSE Ok(Advance(rd, length), SubSeq(rd.data, rd.pos + 1, rd.pos + length))

skipBytes(rd, length) ==
    IF length > size(rd)
    THEN Fail(rd, Err("attempting to skip n bytes when only k remain",
                      length, size(rd)))
    ELSE Ok(Advance(rd, length), <<>>)

\* The end of parseMultiByteVarInt: the bytes read are copied after the
\* first byte (little endian) and the marker bits are shifted away.
shiftMultiByteVarInt(word, numBytes, rest) ==
    IF ~rest.ok THEN rest
    ELSE Ok(rest.rd,
            Shr([i \in 1..8 |-> IF i = 1 THEN word[1]
                                ELSE IF i <= numBytes + 1 THEN rest.value[i - 1]
                                ELSE 0],
                numBytes + 1))

\* The fallback for an encoding of 2..8 bytes; word is `result`, which holds
\* the first byte.
parseMultiByteVarInt(rd, word) ==
    shiftMultiByteVarInt(word, countTrailingZeros(word[1]),
                         parseBytes(rd, countTrailingZeros(word[1])))

\* parseVarInt after its parseByte, whose outcome is `first`.
parseVarIntTail(first) ==
    IF ~first.ok THEN first
    ELSE IF first.value % 2 = 1
         THEN Ok(first.rd, Shr1(Word(first.value)))
    ELSE IF first.value = 0
         THEN parseBytes(first.rd, 8)
    ELSE parseMultiByteVarInt(first.rd, Word(first.value))

parseVarInt(rd) == parseVarIntTail(parseByte(rd))

\* parseVarIntWithFlag taking the flag after the shift (a mutant of
\* splitFlag).
splitFlagShifted(r) ==
    IF ~r.ok THEN r
    ELSE Ok(r.rd, [result |-> Shr1(r.value), flag |-> (Shr1(r.value)[1] % 2 = 1)])

\* parseVarIntWithFlag after its parseVarInt, whose outcome is r.
splitFlag(r) ==
    IF ~r.ok THEN r
    ELSE Ok(r.rd, [result |-> Shr1(r.value), flag |-> (r.value[1] % 2 = 1)])

parseVarIntWithFlag(rd) == splitFlag(parseVarInt(rd))

\* The offset of the first 0 byte at or after the cursor, Len(data) + 1 if none.
RECURSIVE FindNul(_, _)
FindNul(data, i) ==
    IF i > Len(data) THEN i
    ELSE IF data[i] = 0 THEN i
    ELSE FindNul(data, i + 1)

\* parseNullTerminatedString once the 0 byte was looked for, at nulIt.
\* parseNullTerminatedString leaving the cursor at the null character (a
\* mutant of sliceString).
sliceStringAtNul(rd, nulIt) ==
    IF nulIt > Len(rd.data)
    THEN Fail(rd, Err("malformed null-terminated string, no null character found",
                      0, 0))
    ELSE Ok([rd EXCEPT !.pos = nulIt - 1], SubSeq(rd.data, rd.pos + 1, nulIt - 1))

sliceString(rd, nulIt) ==
    IF nulIt > Len(rd.data)
    THEN Fail(rd, Err("malformed null-terminated string, no null character found",
                      0, 0))
    ELSE Ok([rd EXCEPT !.pos = nulIt], SubSeq(rd.data, rd.pos + 1, nulIt - 1))

parseNullTerminatedString(rd) == sliceString(rd, FindNul(rd.data, rd.pos + 1))

\* bytecode::Section
kString == 0
kDialect == 1
kAttrType == 2
kAttrTypeOffset == 3
kIR == 4
kNumSections == 5

\* parseSection after its parseBytes, whose outcome is data.
sectionOf(sectionID, data) ==
    IF ~data.ok THEN data
    ELSE Ok(data.rd, [sectionID |-> sectionID, sectionData |-> data.value])

\* parseSection after the length was parsed: the check of the id, the data.
parseSectionData(sectionID, length) ==
    IF ~length.ok THEN length
    ELSE IF sectionID >= kNumSections
         THEN Fail(length.rd, Err("invalid section ID: ", sectionID, 0))
    ELSE sectionOf(sectionID, parseBytes(length.rd, ToNat(length.value)))

\* parseSection after the id byte was parsed.
parseSectionLength(id) ==
    IF ~id.ok THEN id ELSE parseSectionData(id.value, parseVarInt(id.rd))

parseSection(rd) == parseSectionLength(parseByte(rd))

-----------------------------------------------------------------------------
\* The writer's variable-length encoding of a uint64_t (part of the wire
\* format; the reader's inputs are built with it).

\* The number of bytes of the shortest encoding: n <= 8 when w < 2^(7n), else 9.
VarIntLength(w) ==
    IF \E n \in 1..8 : LessPow2(w, 7 * n)
    THEN CHOOSE n \in 1..8 : LessPow2(w, 7 * n)
                             /\ \A m \in 1..(n - 1) : ~LessPow2(w, 7 * m)
    ELSE 9

\* The n < 9 bytes of the encoding, from the value shifted left by n.
MarkedBytes(shifted, n) ==
    [i \in 1..n |-> IF i = 1 THEN shifted[1] + Pow2(n - 1) ELSE shifted[i]]

\* The encoding of w in n bytes.
EncodeVarIntIn(w, n) ==
    IF n = 9 THEN <<0>> \o w ELSE MarkedBytes(Shl(w, n), n)

EncodeVarInt(w) == EncodeVarIntIn(w, VarIntLength(w))

-----------------------------------------------------------------------------
\* Encoders of the wire format, used to build the reader's inputs.

Enc(n) == EncodeVarInt(Word(n))

\* (n << 1) | flag, the writer's side of parseVarIntWithFlag.
EncWithFlag(n, flag) == Enc(2 * n + (IF flag THEN 1 ELSE 0))

\* Every proper prefix of the byte string q: q cut short by the end of the data.
Truncations(q) == {SubSeq(q, 1, n) : n \in 0..(Len(q) - 1)}

RECURSIVE Concat(_)
Concat(qs) == IF qs = <<>> THEN <<>> ELSE Head(qs) \o Concat(Tail(qs))

-----------------------------------------------------------------------------
\* The host framework (MLIRContext, the assembly parser, the verifier).

\* Dialect names known to the context: "b".
RegisteredDialects == {<<98>>}

\* MLIRContext::getOrLoadDialect: the dialect, or nullptr.
getOrLoadDialect(name) == IF name \in RegisteredDialects THEN "dialect" ELSE "nullptr"

\* mlir::parseAttribute(attrStr, context, numRead): the attribute parsed from
\* the front of the string and the number of characters consumed.  "L" is a
\* location, "D" a dictionary, "I" an integer attribute; nothing else parses.
hostParseAttribute(str) ==
    IF str = <<>> THEN [entry |-> "null", numRead |-> 0]
    ELSE CASE str[1] = 76 -> [entry |-> "LocationAttr", numRead |-> 1]
           [] str[1] = 68 -> [entry |-> "DictionaryAttr", numRead |-> 1]
           [] str[1] = 73 -> [entry |-> "IntegerAttr", numRead |-> 1]
           [] OTHER -> [entry |-> "null", numRead |-> 0]

\* mlir::parseType(typeStr, context, numRead): "T" is a type.
hostParseType(str) ==
    IF str # <<>> /\ str[1] = 84 THEN [entry |-> "Type", numRead |-> 1]
    ELSE [entry |-> "null", numRead |-> 0]

-----------------------------------------------------------------------------
\* resolveEntry / parseEntry: an index into a table.

\* resolveEntry(reader, entries, index, entry, entryStr); the value is the
\* index (0-based) of the entry resolved.
resolveEntry(rd, entries, index, entryStr) ==
    IF index >= Len(entries)
    THEN Fail(rd, Err("invalid " \o entryStr \o " index: ", index, 0))
    ELSE Ok(rd, index)

\* parseEntry after its parseVarInt, whose outcome is entryIdx.
resolveParsed(entryIdx, entries, entryStr) ==
    IF ~entryIdx.ok THEN entryIdx
    ELSE resolveEntry(entryIdx.rd, entries, ToNat(entryIdx.value), entryStr)

parseEntry(rd, entries, entryStr) ==
    resolveParsed(parseVarInt(rd), entries, entryStr)

-----------------------------------------------------------------------------
\* String section

\* The string at [offset, offset + size - 1) of the section.  A size of 0
\* makes size - 1 wrap: the StringRef then claims Sat bytes, of which str
\* keeps those inside the section.
StringAt(sectionData, stringOffset, stringSize) ==
    [off |-> stringOffset,
     len |-> IF stringSize = 0 THEN Sat ELSE stringSize - 1,
     str |-> SubSeq(sectionData, stringOffset + 1,
                    IF stringSize = 0 THEN Len(sectionData)
                    ELSE stringOffset + stringSize - 1)]

\* The loop over llvm::reverse(strs): `left` strs still to fill, the
\* ones filled so far being the tail `done` of the table.
RECURSIVE parseStringSizes(_, _, _, _, _, _)

\* One turn of the loop, after its parseVarInt whose outcome is stringSize.
\* One turn of the loop filling the table from its front (a mutant of
\* placeString).
placeStringForward(stringSize, sectionData, left, stringDataEndOffset, totalStringDataSize, done) ==
    IF ~stringSize.ok THEN stringSize
    ELSE IF stringDataEndOffset < ToNat(stringSize.value)
    THEN Fail(stringSize.rd,
              Err("string size exceeds the available data size", 0, 0))
    ELSE parseStringSizes(stringSize.rd, sectionData, left - 1,
                          stringDataEndOffset - ToNat(stringSize.value),
                          totalStringDataSize + ToNat(stringSize.value),
                          done \o <<StringAt(sectionData,
                                             stringDataEndOffset - ToNat(stringSize.value),
                                             ToNat(stringSize.value))>>)

placeString(stringSize, sectionData, left, stringDataEndOffset, totalStringDataSize, done) ==
    IF ~stringSize.ok THEN stringSize
    ELSE IF stringDataEndOffset < ToNat(stringSize.value)
    THEN Fail(stringSize.rd,
              Err("string size exceeds the available data size", 0, 0))
    ELSE parseStringSizes(stringSize.rd, sectionData, left - 1,
                          stringDataEndOffset - ToNat(stringSize.value),
                          totalStringDataSize + ToNat(stringSize.value),
                          <<StringAt(sectionData,
                                     stringDataEndOffset - ToNat(stringSize.value),
                                     ToNat(stringSize.value))>> \o done)

parseStringSizes(rd, sectionData, left, stringDataEndOffset, totalStringDataSize, done) ==
    IF left = 0
    THEN IF size(rd) # totalStringDataSize
         THEN Fail(rd, Err("unexpected trailing data between the offsets for strings and their data", 0, 0))
         ELSE Ok(rd, done)
    ELSE placeString(parseVarInt(rd), sectionData, left, stringDataEndOffset,
                     totalStringDataSize, done)

\* parseStringSection with stringDataEndOffset starting one byte before the
\* end of the section (a mutant of resizeStrings).
resizeStringsShort(numStrings, sectionData) ==
    IF ~numStrings.ok THEN numStrings
    ELSE parseStringSizes(numStrings.rd, sectionData, ToNat(numStrings.value),
                          Len(sectionData) - 1, 0, <<>>)

\* parseStringSection after the number of strings was parsed.
resizeStrings(numStrings, sectionData) ==
    IF ~numStrings.ok THEN numStrings
    ELSE parseStringSizes(numStrings.rd, sectionData, ToNat(numStrings.value),
                          Len(sectionData), 0, <<>>)

\* The value is the table `strings`.
parseStringSection(sectionData) ==
    resizeStrings(parseVarInt(Reader(sectionData)), sectionData)

\* parseSharedString after its parseEntry, whose outcome is r.
sharedString(r, strs) == IF ~r.ok THEN r ELSE Ok(r.rd, strs[r.value + 1].str)

\* parseSharedString: the value is the string's bytes.
parseSharedString(rd, strs) == sharedString(parseEntry(rd, strs, "string"), strs)

-----------------------------------------------------------------------------
\* Dialect section

\* BytecodeDialect: `dialect` is "None" until a load is recorded; `loads`
\* counts the calls of ctx->getOrLoadDialect(name) that load() has made.
BytecodeDialect(name) == [name |-> name, dialect |-> "None", loads |-> 0]

\* BytecodeOperationName: `dialect` is the index of the owning dialect.
BytecodeOperationName(dialect, name) ==
    [opName |-> "None", dialect |-> dialect, name |-> name]

\* The loop of parseDialectSection over the dialect names.
RECURSIVE parseDialectNames(_, _, _, _)

nameDialect(name, strs, left, done) ==
    IF ~name.ok THEN name
    ELSE parseDialectNames(name.rd, strs, left - 1,
                           Append(done, BytecodeDialect(name.value)))

parseDialectNames(rd, strs, left, done) ==
    IF left = 0 THEN Ok(rd, done)
    ELSE nameDialect(parseSharedString(rd, strs), strs, left, done)

\* The entries of one grouping of the dialect section (the parseOpName lambda).
RECURSIVE parseOpNameEntries(_, _, _, _, _)

emplaceOpName(opName, strs, dialect, left, done) ==
    IF ~opName.ok THEN opName
    ELSE parseOpNameEntries(opName.rd, strs, dialect, left - 1,
                            Append(done, BytecodeOperationName(dialect, opName.value)))

parseOpNameEntries(rd, strs, dialect, left, done) ==
    IF left = 0 THEN Ok(rd, done)
    ELSE emplaceOpName(parseSharedString(rd, strs), strs, dialect, left, done)

\* parseDialectGrouping after the number of entries was parsed.
groupOf(dialect, numEntries) ==
    IF ~numEntries.ok THEN numEntries
    ELSE Ok(numEntries.rd, [dialect    |-> dialect,
                            numEntries |-> ToNat(numEntries.value)])

\* parseDialectGrouping after the dialect was parsed.
groupEntries(dialect) ==
    IF ~dialect.ok THEN dialect
    ELSE groupOf(dialect.value, parseVarInt(dialect.rd))

\* parseDialectGrouping up to its callbacks: the value is the dialect index
\* and the number of entries.
parseDialectGrouping(rd, dls) == groupEntries(parseEntry(rd, dls, "dialect"))

\* The loop of parseDialectSection over the groupings.
RECURSIVE parseOpNameGroupings(_, _, _, _)

nextOpNameGrouping(names, strs, dls) ==
    IF ~names.ok THEN names
    ELSE parseOpNameGroupings(names.rd, strs, dls, names.value)

opNameGrouping(group, strs, dls, done) ==
    IF ~group.ok THEN group
    ELSE nextOpNameGrouping(parseOpNameEntries(group.rd, strs, group.value.dialect,
                                               group.value.numEntries, done),
                            strs, dls)

parseOpNameGroupings(rd, strs, dls, done) ==
    IF empty(rd) THEN Ok(rd, done)
    ELSE opNameGrouping(parseDialectGrouping(rd, dls), strs, dls, done)

\* parseDialectSection loading every dialect it lists (a mutant of
\* dialectTables).
dialectTablesLoaded(dls, names) ==
    IF ~names.ok THEN names
    ELSE Ok(names.rd,
            [dialects |-> [d \in DOMAIN dls |->
                              [dls[d] EXCEPT !.dialect = getOrLoadDialect(dls[d].name),
                                             !.loads = 1]],
             opNames  |-> names.value])

\* parseDialectSection after the groupings were parsed.
dialectTables(dls, names) ==
    IF ~names.ok THEN names
    ELSE Ok(names.rd, [dialects |-> dls, opNames |-> names.value])

\* parseDialectSection after the dialect names were parsed.
dialectOpNames(dls, strs) ==
    IF ~dls.ok THEN dls
    ELSE dialectTables(dls.value, parseOpNameGroupings(dls.rd, strs, dls.value, <<>>))

\* parseDialectSection after the number of dialects was parsed.
resizeDialects(numDialects, strs) ==
    IF ~numDialects.ok THEN numDialects
    ELSE dialectOpNames(parseDialectNames(numDialects.rd, strs,
                                          ToNat(numDialects.value), <<>>),
                        strs)

\* The value is the pair of tables [dialects, opNames].
parseDialectSection(sectionData, strs) ==
    resizeDialects(parseVarInt(Reader(sectionData)), strs)

-----------------------------------------------------------------------------
\* Attribute/Type Reader

\* AttrTypeReader::Entry<T>; `entry` is "null" until resolved, `dialect` the
\* index of the parent dialect (-1 for nullptr); `data` are the bytes of the
\* ArrayRef and `off` the offset in the section at which it starts; `reads`
\* counts the times resolveEntry has set a reader on `data` and called
\* parseEntry.
DefaultEntry ==
    [entry |-> "null", dialect |-> -1, hasCustomEncoding |-> FALSE, data |-> <<>>,
     off |-> 0, reads |-> 0]

\* The parseEntryFn lambda applied to the `left` entries of one grouping.
\* st = [range, currentIndex, currentOffset].  range[currentIndex++] is not
\* bounds-checked: past the end of the table the access is undefined
\* behaviour, and the entry written lies outside the table.
RECURSIVE parseOffsetEntries(_, _, _, _, _)

\* The entry at currentIndex set with currentOffset left where it was (a
\* mutant of setEntry).
setEntryInPlace(st, dialect, entrySize, sectionData) ==
    [range |->
         IF st.currentIndex >= Len(st.range) THEN st.range
         ELSE [st.range EXCEPT ![st.currentIndex + 1] =
                  [entry |-> @.entry,
                   dialect |-> dialect,
                   hasCustomEncoding |-> entrySize.flag,
                   data |-> SubSeq(sectionData, st.currentOffset + 1,
                                   st.currentOffset + ToNat(entrySize.result)),
                   off |-> st.currentOffset,
                   reads |-> @.reads]],
     currentIndex  |-> st.currentIndex + 1,
     currentOffset |-> st.currentOffset]

\* The entry at currentIndex given its dialect, flag and data.
setEntry(st, dialect, entrySize, sectionData) ==
    [range |->
         IF st.currentIndex >= Len(st.range) THEN st.range
         ELSE [st.range EXCEPT ![st.currentIndex + 1] =
                  [entry |-> @.entry,
                   dialect |-> dialect,
                   hasCustomEncoding |-> entrySize.flag,
                   data |-> SubSeq(sectionData, st.currentOffset + 1,
                                   st.currentOffset + ToNat(entrySize.result)),
                   off |-> st.currentOffset,
                   reads |-> @.reads]],
     currentIndex  |-> st.currentIndex + 1,
     currentOffset |-> st.currentOffset + ToNat(entrySize.result)]

\* One call of the lambda, after its parseVarIntWithFlag.
offsetEntry(entrySize, sectionData, dialect, left, st) ==
    IF ~entrySize.ok THEN entrySize
    ELSE IF st.currentOffset + ToNat(entrySize.value.result) > Len(sectionData)
    THEN Fail(entrySize.rd, Err("Attribute or Type entry offset points past the end of section", 0, 0))
    ELSE parseOffsetEntries(entrySize.rd, sectionData, dialect, left - 1,
                            setEntry(st, dialect, entrySize.value, sectionData))

parseOffsetEntries(rd, sectionData, dialect, left, st) ==
    IF left = 0 THEN Ok(rd, st)
    ELSE WithUB(offsetEntry(parseVarIntWithFlag(rd), sectionData, dialect, left, st),
                st.currentIndex >= Len(st.range))

\* The parseEntries lambda: groupings until currentIndex = endIndex.
RECURSIVE parseEntries(_, _, _, _)

nextGrouping(filled, dls, sectionData) ==
    IF ~filled.ok THEN filled
    ELSE WithUB(parseEntries(filled.rd, dls, sectionData, filled.value), filled.ub)

offsetGrouping(group, dls, sectionData, st) ==
    IF ~group.ok THEN group
    ELSE nextGrouping(parseOffsetEntries(group.rd, sectionData, group.value.dialect,
                                         group.value.numEntries, st),
                      dls, sectionData)

parseEntries(rd, dls, sectionData, st) ==
    IF st.currentIndex = Len(st.range) THEN Ok(rd, st)
    ELSE offsetGrouping(parseDialectGrouping(rd, dls), dls, sectionData, st)

\* `n` default entries, the first at offset `currentOffset` of the section.
EntryRange(n, currentOffset) ==
    [range |-> [i \in 1..n |-> DefaultEntry], currentIndex |-> 0,
     currentOffset |-> currentOffset]

\* initialize after the type entries were parsed: the check for trailing data.
attrTypeTables(attrs, tys) ==
    IF ~tys.ok THEN WithUB(tys, attrs.ub)
    ELSE IF ~empty(tys.rd)
    THEN WithUB(Fail(tys.rd, Err("unexpected trailing data in the Attribute/Type offset section", 0, 0)), attrs.ub \/ tys.ub)
    ELSE WithUB(Ok(tys.rd, [attributes |-> attrs.value.range,
                            types      |-> tys.value.range]),
                attrs.ub \/ tys.ub)

\* initialize after the attribute entries were parsed.
typeEntries(attrs, numTypes, dls, sectionData) ==
    IF ~attrs.ok THEN attrs
    ELSE attrTypeTables(attrs,
                        parseEntries(attrs.rd, dls, sectionData,
                                     EntryRange(numTypes, attrs.value.currentOffset)))

\* initialize after the number of types was parsed.
attributeEntries(numAttributes, numTypes, dls, sectionData) ==
    IF ~numTypes.ok THEN numTypes
    ELSE typeEntries(parseEntries(numTypes.rd, dls, sectionData,
                                  EntryRange(numAttributes, 0)),
                     ToNat(numTypes.value), dls, sectionData)

\* initialize after the number of attributes was parsed.
resizeAttrTypes(numAttributes, dls, sectionData) ==
    IF ~numAttributes.ok THEN numAttributes
    ELSE attributeEntries(ToNat(numAttributes.value), parseVarInt(numAttributes.rd),
                          dls, sectionData)

\* AttrTypeReader::initialize; the value is [attributes, types].
initialize(dls, sectionData, offsetSectionData) ==
    resizeAttrTypes(parseVarInt(Reader(offsetSectionData)), dls, sectionData)

\* mlir::parseAttribute / mlir::parseType by the kind of entry.
hostParse(str, entryType) ==
    IF entryType = "Attribute" THEN hostParseAttribute(str) ELSE hostParseType(str)

\* parseEntry after the assembly parser returned `parsed` for the string str.
assemblyParsed(str, parsed, entryType) ==
    IF parsed.entry = "null"
    THEN FailWith(str.rd, Err("assembly parser: " \o entryType \o " syntax error", 0, 0), "null")
    ELSE IF parsed.numRead # Len(str.value)
    THEN FailWith(str.rd, Err("trailing characters found after " \o entryType \o " assembly format: ", 0, 0), parsed.entry)
    ELSE Ok(str.rd, parsed.entry)

\* parseEntry after the string of the entry was parsed.
parseAssembly(str, entryType) ==
    IF ~str.ok THEN FailWith(str.rd, str.err, "null")
    ELSE assemblyParsed(str, hostParse(str.value, entryType), entryType)

\* AttrTypeReader::parseEntry (both overloads).  The value is what is left in
\* `result`, which is the table entry itself: it is assigned as soon as the
\* assembly parser returns.  A null result was reported by the assembly parser.
AttrTypeParseEntry(rd, hasCustomEncoding, entryType) ==
    IF ~hasCustomEncoding
    THEN parseAssembly(parseNullTerminatedString(rd), entryType)
    ELSE FailWith(rd, Err("unexpected " \o entryType \o " encoding", 0, 0), "null")

\* AttrTypeReader::resolveEntry: [entries, entry, errs] are the table
\* afterwards, the attribute or type returned ("null" on failure) and the
\* diagnostics emitted.
Resolved(entries, entry, errs) == [entries |-> entries, entry |-> entry, errs |-> errs]

\* The table after parseEntry read entry `index` and left `value` in it.
readEntry(entries, index, value) ==
    [entries EXCEPT ![index + 1].entry = value, ![index + 1].reads = @ + 1]

\* resolveEntry going on to its trailing-bytes check after parseEntry failed
\* (a mutant of entryParsed).
entryParsedNoReturn(entries, index, entryType, parsed) ==
    Resolved(readEntry(entries, index, parsed.value),
             IF parsed.ok /\ empty(parsed.rd) THEN parsed.value ELSE "null",
             (IF parsed.ok THEN <<>> ELSE <<parsed.err>>)
             \o (IF empty(parsed.rd) THEN <<>>
                 ELSE <<Err("unexpected trailing bytes after " \o entryType \o " entry", 0, 0)>>))

\* resolveEntry returning the entry whatever is left of its bytes (a mutant
\* of entryParsed).
entryParsedAnyLength(entries, index, entryType, parsed) ==
    IF ~parsed.ok
    THEN Resolved(readEntry(entries, index, parsed.value), "null",
                  <<parsed.err>>)
    ELSE Resolved(readEntry(entries, index, parsed.value), parsed.value,
                  <<>>)

\* resolveEntry after parseEntry, whose outcome is parsed.
entryParsed(entries, index, entryType, parsed) ==
    IF ~parsed.ok
    THEN Resolved(readEntry(entries, index, parsed.value), "null",
                  <<parsed.err>>)
    ELSE IF ~empty(parsed.rd)
    THEN Resolved(readEntry(entries, index, parsed.value), "null",
                  <<Err("unexpected trailing bytes after " \o entryType \o " entry", 0, 0)>>)
    ELSE Resolved(readEntry(entries, index, parsed.value), parsed.value,
                  <<>>)

\* resolveEntry parsing the entry whether or not it is resolved (a mutant of
\* AttrTypeResolveEntry).
AttrTypeResolveEntryAgain(entries, index, entryType) ==
    IF index >= Len(entries)
    THEN Resolved(entries, "null", <<Err("invalid " \o entryType \o " index: ", index, 0)>>)
    ELSE entryParsed(entries, index, entryType,
                     AttrTypeParseEntry(Reader(entries[index + 1].data),
                                        entries[index + 1].hasCustomEncoding,
                                        entryType))

AttrTypeResolveEntry(entries, index, entryType) ==
    IF index >= Len(entries)
    THEN Resolved(entries, "null", <<Err("invalid " \o entryType \o " index: ", index, 0)>>)
    ELSE IF entries[index + 1].entry # "null"
         THEN Resolved(entries, entries[index + 1].entry, <<>>)
    ELSE entryParsed(entries, index, entryType,
                     AttrTypeParseEntry(Reader(entries[index + 1].data),
                                        entries[index + 1].hasCustomEncoding,
                                        entryType))

resolveAttribute(attrTable, index) ==
    AttrTypeResolveEntry(attrTable, index, "Attribute")

resolveType(typeTable, index) == AttrTypeResolveEntry(typeTable, index, "Type")

-----------------------------------------------------------------------------
\* The IR under construction.
\*
\* A Value is a triple: the result i of operation op <<"result", op, i>>, the
\* argument i of a block <<"arg", block, i>>, the result of the forward
\* reference operation p <<"forward", p, 0>>, or null.  Operations and blocks
\* are numbered in creation order; operation 0 is the temporary module and
\* block 1 its body.

NullValue == <<"null", 0, 0>>

ResultValue(op, i) == <<"result", op, i>>

ArgValue(blk, i) == <<"arg", blk, i>>

ForwardRefValue(p) == <<"forward", p, 0>>

\* Operation::create(opState)
Operation(name, loc, attrs, resultTypes, operands, successors, numRegions) ==
    [name |-> name, loc |-> loc, attributes |-> attrs, types |-> resultTypes,
     operands |-> operands, successors |-> successors,
     regions |-> [i \in 1..numRegions |-> <<>>]]

\* new Block(): its operations, by id, and the types of its arguments.
NewBlock == [operations |-> <<>>, arguments |-> <<>>]

\* The regions of an operation, each the list of its blocks.
RegionsOf(opTable, op) == IF op = 0 THEN <<<<1>>>> ELSE opTable[op].regions

\* RegionReadState(op, isIsolatedFromAbove).  curRegion counts from 1 and
\* endRegion is one past the last; curBlock is the position of the current
\* block in the region, 0 for the null iterator.
RegionReadState(op, numRegions, isIsolatedFromAbove) ==
    [op |-> op, curRegion |-> 1, endRegion |-> numRegions + 1, numValues |-> 0,
     curBlocks |-> <<>>, curBlock |-> 0, numOpsRemaining |-> 0,
     isIsolatedFromAbove |-> isIsolatedFromAbove]

\* The blocks of the region a frame is reading.
CurRegion(opTable, readState) == RegionsOf(opTable, readState.op)[readState.curRegion]

\* A ValueScope; `defined` is the history of the scope: the value ids that
\* defineValues has assigned in it, in the order of the definitions.
ValueScope == [values |-> <<>>, nextValueIDs |-> <<>>, defined |-> <<>>]

\* ValueScope::push with the ids of the region starting at 0 (a mutant of
\* ScopePush).
ScopePushAtZero(scope, readState) ==
    [values       |-> scope.values \o [i \in 1..readState.numValues |-> NullValue],
     nextValueIDs |-> Append(scope.nextValueIDs, 0),
     defined      |-> scope.defined]

\* ValueScope::push
ScopePush(scope, readState) ==
    [values       |-> scope.values \o [i \in 1..readState.numValues |-> NullValue],
     nextValueIDs |-> Append(scope.nextValueIDs, Len(scope.values)),
     defined      |-> scope.defined]

\* ValueScope::pop leaving the values of the region in the scope (a mutant
\* of ScopePop).
ScopePopKeepingValues(scope, readState) ==
    [values       |-> scope.values,
     nextValueIDs |-> SubSeq(scope.nextValueIDs, 1, Len(scope.nextValueIDs) - 1),
     defined      |-> scope.defined]

\* ValueScope::pop
ScopePop(scope, readState) ==
    [values       |-> SubSeq(scope.values, 1, Len(scope.values) - readState.numValues),
     nextValueIDs |-> SubSeq(scope.nextValueIDs, 1, Len(scope.nextValueIDs) - 1),
     defined      |-> scope.defined]

Front(q) == SubSeq(q, 1, Len(q) - 1)

Last(q) == q[Len(q)]

WithoutElem(q, x) == SelectSeq(q, LAMBDA y : y # x)

\* uint64_t n--, the value left in n; -1 stands for 2^64 - 1.
Decrement(n) == IF n = 0 THEN -1 ELSE n - 1

\* Bit `flag` of the operation mask.
kHasAttrs == 1
kHasResults == 2
kHasOperands == 4
kHasSuccessors == 8
kHasInlineRegions == 16

HasBit(opMask, flag) == (opMask \div flag) % 2 = 1

-----------------------------------------------------------------------------
\* The reader at work.  A machine m is the BytecodeReader with the reader of
\* the slice being parsed: [ok, rd, val, errs, ub] are the LogicalResult so
\* far, the EncodingReader, the value last produced, the diagnostics emitted
\* and whether undefined behaviour was met; the other fields are the members
\* of BytecodeReader and the IR.  Every operator below takes a machine that
\* is ok and returns the machine after the call; an operator named for a
\* point inside a function takes the machine at that point.

MFail(m, err) == [m EXCEPT !.ok = FALSE, !.errs = Append(@, err)]

MVal(m, value) == [m EXCEPT !.val = value]

MUndefined(m) == [m EXCEPT !.ok = FALSE, !.ub = TRUE]

\* A primitive of EncodingReader applied to m.rd, with outcome r.
MRead(m, r) ==
    IF r.ok THEN [m EXCEPT !.rd = r.rd, !.val = r.value]
    ELSE [m EXCEPT !.rd = r.rd, !.ok = FALSE, !.errs = Append(@, r.err)]

\* The machine after load() called ctx->getOrLoadDialect for entry d.
hostLoad(m, d) == [m EXCEPT !.dialects[d + 1].loads = @ + 1]

\* BytecodeDialect::load failing on every dialect the context does not know
\* (a mutant of DialectLoad).
DialectLoadStrict(m, d, allow) ==
    IF m.dialects[d + 1].dialect # "None" THEN m
    ELSE IF getOrLoadDialect(m.dialects[d + 1].name) = "nullptr"
    THEN MFail(hostLoad(m, d), Err("dialect '<name>' is unknown. If this is intended, please call allowUnregisteredDialects() on the MLIRContext, or use -allow-unregistered-dialect with the MLIR tool used.", m.dialects[d + 1].name, 0))
    ELSE [hostLoad(m, d) EXCEPT !.dialects[d + 1].dialect =
                                    getOrLoadDialect(m.dialects[d + 1].name)]

\* BytecodeDialect::load asking the context again for a dialect recorded as
\* nullptr (a mutant of DialectLoad).
DialectLoadRetrying(m, d, allow) ==
    IF m.dialects[d + 1].dialect \notin {"None", "nullptr"} THEN m
    ELSE IF getOrLoadDialect(m.dialects[d + 1].name) = "nullptr" /\ ~allow
    THEN MFail(hostLoad(m, d), Err("dialect '<name>' is unknown. If this is intended, please call allowUnregisteredDialects() on the MLIRContext, or use -allow-unregistered-dialect with the MLIR tool used.", m.dialects[d + 1].name, 0))
    ELSE [hostLoad(m, d) EXCEPT !.dialects[d + 1].dialect =
                                    getOrLoadDialect(m.dialects[d + 1].name)]

\* BytecodeDialect::load, on dialect entry d (0-based); allow is
\* ctx->allowsUnregisteredDialects().
DialectLoad(m, d, allow) ==
    IF m.dialects[d + 1].dialect # "None" THEN m
    ELSE IF getOrLoadDialect(m.dialects[d + 1].name) = "nullptr" /\ ~allow
    THEN MFail(hostLoad(m, d), Err("dialect '<name>' is unknown. If this is intended, please call allowUnregisteredDialects() on the MLIRContext, or use -allow-unregistered-dialect with the MLIR tool used.", m.dialects[d + 1].name, 0))
    ELSE [hostLoad(m, d) EXCEPT !.dialects[d + 1].dialect =
                                    getOrLoadDialect(m.dialects[d + 1].name)]

\* dialect->name + "." + name, for the operation name entry of index idx.
QualifiedName(m, idx) ==
    m.dialects[m.opNames[idx + 1].dialect + 1].name \o <<46>> \o m.opNames[idx + 1].name

\* parseOpName after the dialect was loaded: opName.emplace.
emplaceName(loaded, idx) ==
    IF ~loaded.ok THEN loaded
    ELSE [loaded EXCEPT !.opNames[idx + 1].opName = QualifiedName(loaded, idx),
                        !.val = QualifiedName(loaded, idx)]

\* parseOpName after its parseEntry.
resolveName(e, allow) ==
    IF ~e.ok THEN e
    ELSE IF e.opNames[e.val + 1].opName # "None"
    THEN MVal(e, e.opNames[e.val + 1].opName)
    ELSE emplaceName(DialectLoad(e, e.opNames[e.val + 1].dialect, allow), e.val)

\* BytecodeReader::parseOpName; the value is the qualified name.
parseOpName(m, allow) ==
    resolveName(MRead(m, parseEntry(m.rd, m.opNames, "operation name")), allow)

\* The machine after attrTypeReader.resolveAttribute returned r; a null
\* attribute is a failure of the caller.
attributeResolved(m, r) ==
    [m EXCEPT !.attributes = r.entries, !.errs = @ \o r.errs, !.val = r.entry,
              !.ok = (r.entry # "null")]

\* parseAttribute after the index was parsed.
resolveAttrIdx(attrIdx) ==
    IF ~attrIdx.ok THEN attrIdx
    ELSE attributeResolved(attrIdx,
                           resolveAttribute(attrIdx.attributes, ToNat(attrIdx.val)))

\* BytecodeReader::parseAttribute(reader)
parseAttribute(m) == resolveAttrIdx(MRead(m, parseVarInt(m.rd)))

\* parseAttribute<T> after the attribute was parsed: the dyn_cast.
castAttribute(a, T) ==
    IF ~a.ok THEN a
    ELSE IF a.val # T
    THEN MFail(a, Err("expected attribute of type: " \o T \o ", but got: ", 0, 0))
    ELSE a

\* BytecodeReader::parseAttribute<T>
parseAttributeOf(m, T) == castAttribute(parseAttribute(m), T)

typeResolved(m, r) ==
    [m EXCEPT !.types = r.entries, !.errs = @ \o r.errs, !.val = r.entry,
              !.ok = (r.entry # "null")]

\* parseType after the index was parsed.
resolveTypeIdx(typeIdx) ==
    IF ~typeIdx.ok THEN typeIdx
    ELSE typeResolved(typeIdx, resolveType(typeIdx.types, ToNat(typeIdx.val)))

\* BytecodeReader::parseType
parseType(m) == resolveTypeIdx(MRead(m, parseVarInt(m.rd)))

\* createForwardRef creating an operation whether or not one is free (a
\* mutant of createForwardRef).
createForwardRefFresh(m) ==
    [m EXCEPT !.placeholders = @ + 1,
              !.forwardRefOps = Append(@, m.placeholders + 1),
              !.val = ForwardRefValue(m.placeholders + 1)]

\* BytecodeReader::createForwardRef
createForwardRef(m) ==
    IF m.openForwardRefOps # <<>>
    THEN [m EXCEPT !.openForwardRefOps = Front(@),
                   !.forwardRefOps = Append(@, Last(m.openForwardRefOps)),
                   !.val = ForwardRefValue(Last(m.openForwardRefOps))]
    ELSE [m EXCEPT !.placeholders = @ + 1,
                   !.forwardRefOps = Append(@, m.placeholders + 1),
                   !.val = ForwardRefValue(m.placeholders + 1)]

\* *value = createForwardRef(), f being the machine after createForwardRef.
setForwardRef(f, idx) ==
    [f EXCEPT !.valueScopes[Len(f.valueScopes)].values[idx + 1] = f.val]

\* parseOperand taking the value of the outermost scope when that scope has
\* one at the index (a mutant of operandValue).
operandValueOutermost(e) ==
    IF ~e.ok THEN e
    ELSE IF e.val < Len(e.valueScopes[1].values)
            /\ e.valueScopes[1].values[e.val + 1] # NullValue
    THEN MVal(e, e.valueScopes[1].values[e.val + 1])
    ELSE IF Last(e.valueScopes).values[e.val + 1] = NullValue
    THEN setForwardRef(createForwardRef(e), e.val)
    ELSE MVal(e, Last(e.valueScopes).values[e.val + 1])

\* parseOperand after its parseEntry.
operandValue(e) ==
    IF ~e.ok THEN e
    ELSE IF Last(e.valueScopes).values[e.val + 1] = NullValue
    THEN setForwardRef(createForwardRef(e), e.val)
    ELSE MVal(e, Last(e.valueScopes).values[e.val + 1])

\* BytecodeReader::parseOperand
parseOperand(m) ==
    IF m.valueScopes = <<>> THEN MUndefined(m)
    ELSE operandValue(MRead(m, parseEntry(m.rd, Last(m.valueScopes).values, "value")))

\* Value::replaceAllUsesWith
replaceAllUsesWith(opTable, oldValue, newValue) ==
    [o \in DOMAIN opTable |->
        [opTable[o] EXCEPT !.operands =
            [j \in DOMAIN opTable[o].operands |->
                IF opTable[o].operands[j] = oldValue THEN newValue
                ELSE opTable[o].operands[j]]]]

\* std::exchange(values[valueID], newValue)
exchange(m, valueID, newValue) ==
    [m EXCEPT !.valueScopes[Len(m.valueScopes)].values[valueID + 1] = newValue,
              !.valueScopes[Len(m.valueScopes)].defined = Append(@, valueID)]

\* The forward reference operation moved to openForwardRefOps with the uses
\* of its result left in place (a mutant of resolveForwardRef).
resolveForwardRefKeepingUses(m, oldValue, newValue) ==
    [m EXCEPT !.forwardRefOps = WithoutElem(@, oldValue[2]),
              !.openForwardRefOps = Append(@, oldValue[2])]

\* The forward reference operation p is resolved: the uses of its result
\* become uses of newValue and the operation moves to openForwardRefOps.
resolveForwardRef(m, oldValue, newValue) ==
    [m EXCEPT !.ops = replaceAllUsesWith(@, oldValue, newValue),
              !.forwardRefOps = WithoutElem(@, oldValue[2]),
              !.openForwardRefOps = Append(@, oldValue[2])]

\* The loop of defineValues over newValues[i..], valueID being the next id.
\* An old value that is not the result of an operation of forwardRefOps
\* breaks the assertion of the loop (ub).
RECURSIVE defineLoop(_, _, _, _)

defineValue(m, newValues, i, valueID, oldValue) ==
    IF oldValue = NullValue
    THEN defineLoop(exchange(m, valueID, newValues[i]), newValues, i + 1, valueID + 1)
    ELSE IF oldValue[1] = "forward"
            /\ \E k \in DOMAIN m.forwardRefOps : m.forwardRefOps[k] = oldValue[2]
    THEN defineLoop(resolveForwardRef(exchange(m, valueID, newValues[i]),
                                      oldValue, newValues[i]),
                    newValues, i + 1, valueID + 1)
    ELSE MUndefined(exchange(m, valueID, newValues[i]))

\* The loop of defineValues leaving the next value id where it was (a mutant
\* of defineLoop).
defineLoopKeepingID(m, newValues, i, valueID) ==
    IF i > Len(newValues) THEN m
    ELSE defineValue(m, newValues, i, valueID,
                     Last(m.valueScopes).values[valueID + 1])

defineLoop(m, newValues, i, valueID) ==
    IF i > Len(newValues)
    THEN [m EXCEPT !.valueScopes[Len(m.valueScopes)].nextValueIDs =
                       Append(Front(@), valueID)]
    ELSE defineValue(m, newValues, i, valueID,
                     Last(m.valueScopes).values[valueID + 1])

\* defineValues refusing a range that ends at the last slot of the scope (a
\* mutant of defineValues).
defineValuesOneLess(m, newValues) ==
    IF m.valueScopes = <<>> \/ Last(m.valueScopes).nextValueIDs = <<>>
    THEN MUndefined(m)
    ELSE IF Last(Last(m.valueScopes).nextValueIDs) + Len(newValues)
            >= Len(Last(m.valueScopes).values)
    THEN MFail(m, Err("value index range was outside of the expected range for the parent region", Last(Last(m.valueScopes).nextValueIDs), Last(Last(m.valueScopes).nextValueIDs) + Len(newValues)))
    ELSE defineLoop(m, newValues, 1, Last(Last(m.valueScopes).nextValueIDs))

\* BytecodeReader::defineValues.  With no value scope, or no region pushed on
\* the scope, back() is undefined behaviour.
defineValues(m, newValues) ==
    IF m.valueScopes = <<>> \/ Last(m.valueScopes).nextValueIDs = <<>>
    THEN MUndefined(m)
    ELSE IF Last(Last(m.valueScopes).nextValueIDs) + Len(newValues)
            > Len(Last(m.valueScopes).values)
    THEN MFail(m, Err("value index range was outside of the expected range for the parent region", Last(Last(m.valueScopes).nextValueIDs), Last(Last(m.valueScopes).nextValueIDs) + Len(newValues)))
    ELSE defineLoop(m, newValues, 1, Last(Last(m.valueScopes).nextValueIDs))

\* The loop of parseOpWithoutRegions over the result types.
RECURSIVE parseResultTypes(_, _, _)

resultType(t, n, acc) ==
    IF ~t.ok THEN t ELSE parseResultTypes(t, n - 1, Append(acc, t.val))

parseResultTypes(m, n, acc) ==
    IF n = 0 THEN MVal(m, acc) ELSE resultType(parseType(m), n, acc)

\* The loop of parseOpWithoutRegions over the operands.
RECURSIVE parseOperands(_, _, _)

operand(v, n, acc) ==
    IF ~v.ok THEN v ELSE parseOperands(v, n - 1, Append(acc, v.val))

parseOperands(m, n, acc) ==
    IF n = 0 THEN MVal(m, acc) ELSE operand(parseOperand(m), n, acc)

\* The loop of parseOpWithoutRegions over the successors.
RECURSIVE parseSuccessors(_, _, _, _)

\* The successor taken as the first block of the region whatever the index
\* (a mutant of successor).
successorFirst(e, curBlocks, n, acc) ==
    IF ~e.ok THEN e
    ELSE parseSuccessors(e, curBlocks, n - 1, Append(acc, curBlocks[1]))

successor(e, curBlocks, n, acc) ==
    IF ~e.ok THEN e
    ELSE parseSuccessors(e, curBlocks, n - 1, Append(acc, curBlocks[e.val + 1]))

parseSuccessors(m, curBlocks, n, acc) ==
    IF n = 0 THEN MVal(m, acc)
    ELSE successor(MRead(m, parseEntry(m.rd, curBlocks, "successor")),
                   curBlocks, n, acc)

\* A varint count when bit `flag` of the mask is set, else 0.
parseCount(m, opMask, flag) ==
    IF HasBit(opMask, flag) THEN MRead(m, parseVarInt(m.rd))
    ELSE MVal(m, ZeroWord)

\* OperationState opState(opLoc, *opName), with the mask read.
OperationState(name, opMask, loc) ==
    [name |-> name, opMask |-> opMask, loc |-> loc, attributes |-> "null",
     types |-> <<>>, operands |-> <<>>, successors |-> <<>>]

\* parseOpWithoutRegions after defineValues.
opDefined(defined, op, isIsolatedFromAbove) ==
    IF ~defined.ok THEN defined
    ELSE MVal(defined, [op |-> op, isIsolatedFromAbove |-> isIsolatedFromAbove])

\* parseOpWithoutRegions after the operation `op` was created: defineValues
\* when it has results.
opResults(created, op, opState, isIsolatedFromAbove) ==
    opDefined(IF opState.types = <<>> THEN created
              ELSE defineValues(created,
                                [i \in 1..Len(opState.types) |-> ResultValue(op, i)]),
              op, isIsolatedFromAbove)

\* Operation::create(opState) with the operation put at the front of the
\* block (a mutant of pushBack).
pushFront(m, readState, opState, numRegions) ==
    [m EXCEPT
        !.ops = Append(@, Operation(opState.name, opState.loc, opState.attributes,
                                    opState.types, opState.operands,
                                    opState.successors, numRegions)),
        !.blocks[CurRegion(m.ops, readState)[readState.curBlock]].operations =
            <<Len(m.ops) + 1>> \o @]

\* Operation::create(opState) and readState.curBlock->push_back(op).
pushBack(m, readState, opState, numRegions) ==
    [m EXCEPT
        !.ops = Append(@, Operation(opState.name, opState.loc, opState.attributes,
                                    opState.types, opState.operands,
                                    opState.successors, numRegions)),
        !.blocks[CurRegion(m.ops, readState)[readState.curBlock]].operations =
            Append(@, Len(m.ops) + 1)]

\* parseOpWithoutRegions after the regions were parsed.
createOp(rg, readState, opState) ==
    IF ~rg.ok THEN rg
    ELSE opResults(pushBack(rg, readState, opState, ToNat(rg.val.result)),
                   Len(rg.ops) + 1, opState, rg.val.flag)

\* parseOpWithoutRegions after the successors were parsed.
opRegions(successors, readState, opState) ==
    IF ~successors.ok THEN successors
    ELSE createOp(IF HasBit(opState.opMask, kHasInlineRegions)
                  THEN MRead(successors, parseVarIntWithFlag(successors.rd))
                  ELSE MVal(successors, [result |-> ZeroWord, flag |-> FALSE]),
                  readState, [opState EXCEPT !.successors = successors.val])

\* parseOpWithoutRegions after the number of successors was parsed.
opSuccessors(numSuccs, readState, opState) ==
    IF ~numSuccs.ok THEN numSuccs
    ELSE opRegions(parseSuccessors(numSuccs, readState.curBlocks,
                                   ToNat(numSuccs.val), <<>>),
                   readState, opState)

\* parseOpWithoutRegions after the operands were parsed.
opNumSuccs(operands, readState, opState) ==
    IF ~operands.ok THEN operands
    ELSE opSuccessors(parseCount(operands, opState.opMask, kHasSuccessors),
                      readState, [opState EXCEPT !.operands = operands.val])

\* parseOpWithoutRegions after the number of operands was parsed.
opOperands(numOperands, readState, opState) ==
    IF ~numOperands.ok THEN numOperands
    ELSE opNumSuccs(parseOperands(numOperands, ToNat(numOperands.val), <<>>),
                    readState, opState)

\* parseOpWithoutRegions after the result types were parsed.
opNumOperands(resultTypes, readState, opState) ==
    IF ~resultTypes.ok THEN resultTypes
    ELSE opOperands(parseCount(resultTypes, opState.opMask, kHasOperands),
                    readState, [opState EXCEPT !.types = resultTypes.val])

\* parseOpWithoutRegions after the number of results was parsed.
opTypes(numResults, readState, opState) ==
    IF ~numResults.ok THEN numResults
    ELSE opNumOperands(parseResultTypes(numResults, ToNat(numResults.val), <<>>),
                       readState, opState)

\* parseOpWithoutRegions after the attribute dictionary was parsed.
opNumResults(dictAttr, readState, opState) ==
    IF ~dictAttr.ok THEN dictAttr
    ELSE opTypes(parseCount(dictAttr, opState.opMask, kHasResults),
                 readState, [opState EXCEPT !.attributes = dictAttr.val])

\* parseOpWithoutRegions after the location was parsed.
opAttributes(opLoc, readState, name, opMask) ==
    IF ~opLoc.ok THEN opLoc
    ELSE opNumResults(IF HasBit(opMask, kHasAttrs)
                      THEN parseAttributeOf(opLoc, "DictionaryAttr")
                      ELSE MVal(opLoc, "null"),
                      readState, OperationState(name, opMask, opLoc.val))

\* parseOpWithoutRegions after the mask was parsed.
opLocation(opMask, readState, name) ==
    IF ~opMask.ok THEN opMask
    ELSE opAttributes(parseAttributeOf(opMask, "LocationAttr"), readState, name,
                      opMask.val)

\* parseOpWithoutRegions after the name was parsed.
opMaskOf(opName, readState) ==
    IF ~opName.ok THEN opName
    ELSE opLocation(MRead(opName, parseByte(opName.rd)), readState, opName.val)

\* BytecodeReader::parseOpWithoutRegions; the value is the operation created
\* and its isolated-from-above flag.
parseOpWithoutRegions(m, readState, allow) ==
    opMaskOf(parseOpName(m, allow), readState)

\* The loop of parseBlockArguments; the value is the list of argument types.
RECURSIVE parseArgs(_, _, _)

argLocation(argLoc, argType, numArgs, acc) ==
    IF ~argLoc.ok THEN argLoc
    ELSE parseArgs(argLoc, numArgs - 1, Append(acc, argType))

argTypeOf(argType, numArgs, acc) ==
    IF ~argType.ok THEN argType
    ELSE argLocation(parseAttributeOf(argType, "LocationAttr"), argType.val,
                     numArgs, acc)

parseArgs(m, numArgs, acc) ==
    IF numArgs = 0 THEN MVal(m, acc) ELSE argTypeOf(parseType(m), numArgs, acc)

\* parseBlockArguments after the arguments were parsed: addArguments and
\* defineValues.
addArguments(args, blk) ==
    IF ~args.ok THEN args
    ELSE defineValues([args EXCEPT !.blocks[blk].arguments = @ \o args.val],
                      [i \in 1..Len(args.val) |-> ArgValue(blk, i)])

\* parseBlockArguments after the number of arguments was parsed.
blockArgs(numArgs, blk) ==
    IF ~numArgs.ok THEN numArgs
    ELSE addArguments(parseArgs(numArgs, ToNat(numArgs.val), <<>>), blk)

\* BytecodeReader::parseBlockArguments on block blk.
parseBlockArguments(m, blk) == blockArgs(MRead(m, parseVarInt(m.rd)), blk)

\* parseBlock after the arguments were parsed.
blockParsed(args, numOpsRemaining) ==
    IF ~args.ok THEN args ELSE MVal(args, numOpsRemaining)

\* parseBlock after the header was parsed.
blockHeader(header, blk) ==
    IF ~header.ok THEN header
    ELSE IF header.val.flag
    THEN blockParsed(parseBlockArguments(header, blk), ToNat(header.val.result))
    ELSE MVal(header, ToNat(header.val.result))

\* BytecodeReader::parseBlock on block blk; the value is numOpsRemaining.
parseBlock(m, blk) == blockHeader(MRead(m, parseVarIntWithFlag(m.rd)), blk)

\* parseRegion after the entry block was parsed: the frame afterwards.
regionParsed(entry, readState) ==
    IF ~entry.ok THEN entry
    ELSE MVal(entry, [readState EXCEPT !.numOpsRemaining = entry.val])

\* The frame once the blocks of the region are created, the machine m being
\* the one before they were.
withBlocks(m, readState, numBlocks, numValues) ==
    [readState EXCEPT !.numValues = numValues,
                      !.curBlocks = [i \in 1..numBlocks |-> Len(m.blocks) + i],
                      !.curBlock = 1]

\* The blocks of the region are created and pushed on it, and the value
\* scope is prepared.
createBlocks(m, readState, numBlocks, numValues) ==
    [m EXCEPT
        !.blocks = @ \o [i \in 1..numBlocks |-> NewBlock],
        !.ops[readState.op].regions[readState.curRegion] =
            @ \o [i \in 1..numBlocks |-> Len(m.blocks) + i],
        !.valueScopes[Len(m.valueScopes)] =
            ScopePush(@, [readState EXCEPT !.numValues = numValues])]

\* parseRegion after the number of values was parsed.
regionBlocks(numValues, readState, numBlocks) ==
    IF ~numValues.ok THEN numValues
    ELSE regionParsed(
             parseBlock(createBlocks(numValues, readState, numBlocks,
                                     ToNat(numValues.val)),
                        Len(numValues.blocks) + 1),
             withBlocks(numValues, readState, numBlocks, ToNat(numValues.val)))

\* parseRegion going on to the number of values when the region has no
\* block (a mutant of regionValues).
regionValuesOfEmpty(numBlocks, readState) ==
    IF ~numBlocks.ok THEN numBlocks
    ELSE regionBlocks(MRead(numBlocks, parseVarInt(numBlocks.rd)), readState,
                      ToNat(numBlocks.val))

\* parseRegion after the number of blocks was parsed.
regionValues(numBlocks, readState) ==
    IF ~numBlocks.ok THEN numBlocks
    ELSE IF ToNat(numBlocks.val) = 0 THEN MVal(numBlocks, readState)
    ELSE regionBlocks(MRead(numBlocks, parseVarInt(numBlocks.rd)), readState,
                      ToNat(numBlocks.val))

\* BytecodeReader::parseRegion; the value is the frame afterwards.
parseRegion(m, readState) == regionValues(MRead(m, parseVarInt(m.rd)), readState)

-----------------------------------------------------------------------------
\* The byte cursor on its own: the primitives applied to small buffers.

Idle == [op |-> "none", n |-> 0, before |-> 0, ok |-> TRUE, value |-> <<>>,
         err |-> NoErr]

\* What is recorded of a primitive applied with argument n to reader rd.
Applied(op, n, rd, r) ==
    [op |-> op, n |-> n, before |-> rd.pos, ok |-> r.ok, value |-> r.value,
     err |-> r.err]

\* The bytes the cursor specification builds its buffers from: the 9-byte
\* marker and NUL (0), single-byte varints (1, 3, 11), a 2-byte marker (2).
CursorBytes == {0, 1, 2, 3, 11}

RECURSIVE SeqsUpTo(_, _)
SeqsUpTo(S, n) ==
    IF n = 0 THEN {<<>>}
    ELSE LET shorter == SeqsUpTo(S, n - 1)
         IN  shorter \cup {Append(q, x) : q \in {t \in shorter : Len(t) = n - 1},
                                          x \in S}


\* The state of the call's variables where no call is being made.
NoSections == [i \in 0..(kNumSections - 1) |-> FALSE]

NoRead ==
    /\ pc = "idle" /\ result = "none" /\ diags = <<>> /\ diagHandler = FALSE
    /\ buffer = <<>> /\ window = <<>> /\ block = <<>> /\ allowUnregistered = FALSE
    /\ log = <<>>
    /\ version = 0 /\ producer = <<>> /\ sectionDatas = NoSections
    /\ strings = <<>> /\ dialects = <<>> /\ opNames = <<>>
    /\ attributes = <<>> /\ types = <<>>
    /\ regionStack = <<>> /\ valueScopes = <<>>
    /\ forwardRefOps = <<>> /\ openForwardRefOps = <<>>
    /\ ops = <<>> /\ blocks = <<>> /\ placeholders = 0

NoCursor == reader = Reader(<<>>) /\ last = Idle /\ vx = ZeroWord

CursorInit ==
    /\ reader \in {Reader(d) : d \in SeqsUpTo(CursorBytes, MaxBuf)}
    /\ last = Idle
    /\ vx = ZeroWord
    /\ NoRead

CurParseByte ==
    LET r == parseByte(reader)
    IN  /\ reader' = r.rd
        /\ last' = Applied("parseByte", 0, reader, r)
        /\ UNCHANGED <<vx, readVars>>

CurParseBytes ==
    \E length \in 0..MaxAsk :
        LET r == parseBytes(reader, length)
        IN  /\ reader' = r.rd
            /\ last' = Applied("parseBytes", length, reader, r)
            /\ UNCHANGED <<vx, readVars>>

CurSkipBytes ==
    \E length \in 0..MaxAsk :
        LET r == skipBytes(reader, length)
        IN  /\ reader' = r.rd
            /\ last' = Applied("skipBytes", length, reader, r)
            /\ UNCHANGED <<vx, readVars>>

CurParseVarInt ==
    LET r == parseVarInt(reader)
    IN  /\ reader' = r.rd
        /\ last' = Applied("parseVarInt", 0, reader, r)
        /\ UNCHANGED <<vx, readVars>>

CurParseVarIntWithFlag ==
    LET r == parseVarIntWithFlag(reader)
    IN  /\ reader' = r.rd
        /\ last' = Applied("parseVarIntWithFlag", 0, reader, r)
        /\ UNCHANGED <<vx, readVars>>

CurParseNullTerminatedString ==
    LET r == parseNullTerminatedString(reader)
    IN  /\ reader' = r.rd
        /\ last' = Applied("parseNullTerminatedString", 0, reader, r)
        /\ UNCHANGED <<vx, readVars>>

CurParseSection ==
    LET r == parseSection(reader)
    IN  /\ reader' = r.rd
        /\ last' = Applied("parseSection", 0, reader, r)
        /\ UNCHANGED <<vx, readVars>>

CursorNext ==
    \/ CurParseByte
    \/ CurParseBytes
    \/ CurSkipBytes
    \/ CurParseVarInt
    \/ CurParseVarIntWithFlag
    \/ CurParseNullTerminatedString
    \/ CurParseSection

SpecCursor == CursorInit /\ [][CursorNext]_vars

-----------------------------------------------------------------------------
\* The variable-length integer codec: a value is written by the encoder and
\* read back by parseVarInt / parseVarIntWithFlag.

\* The values tried: 0..MaxSmall, and around every length boundary 2^(7n).
VarIntValues ==
    {Word(n) : n \in 0..MaxSmall}
    \cup {Word(n) : n \in {42, 127, 128, 255, 256, 16383, 16384, 2097151, 2097152}}
    \cup {Pow2Word(k) : k \in {7, 14, 21, 28, 35, 42, 49, 56, 63}}
    \cup {Pow2Minus1Word(k) : k \in {7, 14, 21, 28, 35, 42, 49, 56, 63, 64}}

\* The bytes that follow the encoding in the buffer.
VarIntTails == {<<>>, <<1>>, <<0, 255>>}

VarIntInit ==
    /\ vx \in VarIntValues
    /\ reader = Reader(<<>>)
    /\ last = Idle
    /\ NoRead

\* The buffer holds lead bytes already consumed, the encoding of vx, a tail.
VarIntWrite ==
    /\ reader.data = <<>>
    /\ \E lead \in {<<>>, <<7>>}, tail \in VarIntTails :
           reader' = [data |-> lead \o EncodeVarInt(vx) \o tail, pos |-> Len(lead)]
    /\ UNCHANGED <<last, vx, readVars>>

VarIntRead ==
    /\ reader.data # <<>>
    /\ last.op = "none"
    /\ LET r == parseVarInt(reader)
       IN  /\ reader' = r.rd
           /\ last' = Applied("parseVarInt", 0, reader, r)
    /\ UNCHANGED <<vx, readVars>>

VarIntReadWithFlag ==
    /\ reader.data # <<>>
    /\ last.op = "none"
    /\ LET r == parseVarIntWithFlag(reader)
       IN  /\ reader' = r.rd
           /\ last' = Applied("parseVarIntWithFlag", 0, reader, r)
    /\ UNCHANGED <<vx, readVars>>

VarIntNext ==
    \/ VarIntWrite
    \/ VarIntRead
    \/ VarIntReadWithFlag

SpecVarInt == VarIntInit /\ [][VarIntNext]_vars

-----------------------------------------------------------------------------
\* readBytecodeFile(buffer, block, config): the inputs.
\*
\* The buffer is read front to back by one cursor.  Each step draws `window`,
\* the bytes of the buffer at the cursor, from the inputs listed below, and
\* either fails in them or consumes them all; a window cut short is a buffer
\* that ends there.  The payloads of the String, Dialect, AttrType and
\* AttrTypeOffset sections are part of their section record; the payload of
\* the IR section is drawn window by window while it is parsed.

\* "ML\xefR"
Magic == <<77, 76, 239, 82>>

\* The first bytes of the buffer: the magic number, "MLIR", shorter buffers,
\* buffers that differ from the magic number in one place.
BufferHeads ==
    {Magic, <<77, 76, 73, 82>>, <<>>, <<77>>, <<77, 76, 239>>,
     <<76, 77, 239, 82>>, <<77, 76, 239, 83>>, <<0, 76, 239, 82>>}

\* bytecode::kVersion
kVersion == 1

VersionInputs == {Enc(0), Enc(1), Enc(2), Enc(200), <<>>, <<2>>}

\* "p", and strings with no terminator
ProducerInputs == {<<112, 0>>, <<112>>, <<>>}

\* The strings "b", "u", "m"; the sizes come last string first.
StringSectionOK ==
    Concat(<<Enc(3), Enc(2), Enc(2), Enc(2), <<98, 0, 117, 0, 109, 0>>>>)

\* The strings "bu" and "m": the sizes 2 (of "m") and 3 (of "bu"), then the
\* data.
StringSectionTwoSizes == Concat(<<Enc(2), Enc(2), Enc(3), <<98, 117, 0, 109, 0>>>>)

\* One string of size 0 and no string data.
StringSectionSizeZero == Concat(<<Enc(1), Enc(0)>>)

StringSections ==
    {StringSectionOK, StringSectionTwoSizes, StringSectionSizeZero, <<>>,
     Concat(<<Enc(1), Enc(5), <<98, 0>>>>)}

\* The dialects "b", "u", "m" and the operation names "b.m", "u.m", "u.b".
DialectSectionOK ==
    Concat(<<Enc(3), Enc(0), Enc(1), Enc(2),
             Enc(0), Enc(1), Enc(2),
             Enc(1), Enc(2), Enc(2), Enc(0)>>)

DialectSections == {DialectSectionOK, <<>>, Concat(<<Enc(1), Enc(7)>>)}

\* The attributes "L", "D", "I", "L" and the types "T", "X", and the string
\* "LD" after them.
AttrTypeSectionOK == <<76, 0, 68, 0, 73, 0, 76, 0, 84, 0, 88, 0, 76, 68, 0>>

AttrTypeSections == {AttrTypeSectionOK, <<>>}

\* Four attributes (the last of dialect "m", with a custom encoding) and two
\* types, each of two bytes.
AttrTypeOffsetSectionOK ==
    Concat(<<Enc(4), Enc(2),
             Enc(0), Enc(3), EncWithFlag(2, FALSE), EncWithFlag(2, FALSE),
                             EncWithFlag(2, FALSE),
             Enc(2), Enc(1), EncWithFlag(2, TRUE),
             Enc(0), Enc(2), EncWithFlag(2, FALSE), EncWithFlag(2, FALSE)>>)

\* Three attributes of 4, 8 and 3 bytes and a type of no bytes, of dialect
\* "b": "L" and "I" with bytes after the terminator, and "LD".
AttrTypeOffsetSectionSizes ==
    Concat(<<Enc(3), Enc(1),
             Enc(0), Enc(3), EncWithFlag(4, FALSE), EncWithFlag(8, FALSE),
                             EncWithFlag(3, FALSE),
             Enc(0), Enc(1), EncWithFlag(0, FALSE)>>)

\* One attribute and no type declared, and a grouping of dialect "b" with two
\* entries of 2 bytes.
AttrTypeOffsetSectionOverrun ==
    Concat(<<Enc(1), Enc(0),
             Enc(0), Enc(2), EncWithFlag(2, FALSE), EncWithFlag(2, FALSE)>>)

AttrTypeOffsetSections ==
    {AttrTypeOffsetSectionOK, AttrTypeOffsetSectionSizes, <<>>,
     AttrTypeOffsetSectionOverrun,
     Concat(<<Enc(1), Enc(0), Enc(0), Enc(1), EncWithFlag(30, FALSE)>>)}

\* A section record: id, length, payload.
SectionRecord(id, payload) == <<id>> \o Enc(Len(payload)) \o payload

\* Section records that parseSection rejects: an id outside the five defined
\* ones, and records cut short in the id, the length or the payload.
BadSectionRecords ==
    {SectionRecord(5, <<>>), SectionRecord(9, <<0>>), SectionRecord(255, <<>>),
     <<5>>, <<9, 2>>, <<kString>>, <<kDialect, 2>>, <<kIR>>,
     <<kString>> \o Enc(3) \o <<1>>, <<kAttrType>> \o Enc(1),
     <<6>> \o Enc(3) \o <<1>>}

\* The operations of the target block before the call: none, one followed
\* by a terminator, two of which the last is not a terminator.
Existing(id, terminator) == [parsed |-> FALSE, id |-> id, terminator |-> terminator]

ParsedOp(op) == [parsed |-> TRUE, id |-> op, terminator |-> FALSE]

\* The target block with MLIRContext::allowsUnregisteredDialects().
Configs ==
    {<<<<>>, FALSE>>,
     <<<<Existing(1, FALSE), Existing(2, TRUE)>>, TRUE>>,
     <<<<Existing(1, FALSE), Existing(2, FALSE)>>, TRUE>>}

-----------------------------------------------------------------------------
\* readBytecodeFile

\* A diagnostic that reaches the host with no note attached (a mutant of
\* Emitted).
EmittedBare(err) == [err |-> err, note |-> FALSE, text |-> <<>>]

\* A diagnostic as the host receives it: the handler installed by read()
\* attaches the note "in bytecode version <version> produced by: <producer>",
\* kept in `text` as the pair of the two.
Emitted(err) ==
    [err |-> err, note |-> diagHandler,
     text |-> IF diagHandler THEN <<version, producer>> ELSE <<>>]

EmitAll(errs) == [i \in DOMAIN errs |-> Emitted(errs[i])]

\* readBytecodeFile returns res having emitted errs; the BytecodeReader and
\* the locals of read() are gone.
\* The position is `at`: "done", or "undefined" when the call went through
\* undefined behaviour.
ReturnAt(at, res, errs) ==
    /\ pc' = at
    /\ result' = res
    /\ diags' = diags \o EmitAll(errs)
    /\ diagHandler' = FALSE
    /\ version' = 0 /\ producer' = <<>> /\ sectionDatas' = NoSections
    /\ strings' = <<>> /\ dialects' = <<>> /\ opNames' = <<>>
    /\ attributes' = <<>> /\ types' = <<>>
    /\ regionStack' = <<>> /\ valueScopes' = <<>>
    /\ forwardRefOps' = <<>> /\ openForwardRefOps' = <<>>

Return(res, errs) == ReturnAt("done", res, errs)

\* A failure that leaves the operations created so far in the target block
\* (a mutant of Failure).
FailureKeepingOps(errs) ==
    /\ Return("failure", errs)
    /\ ops' = <<>> /\ blocks' = <<>> /\ placeholders' = 0
    /\ block' = block \o [i \in DOMAIN ops |-> ParsedOp(i)]
    /\ UNCHANGED <<buffer, allowUnregistered, log, cursorVars>>

\* A failure: the IR built so far is destroyed with the temporary module.
Failure(errs) ==
    /\ Return("failure", errs)
    /\ ops' = <<>> /\ blocks' = <<>> /\ placeholders' = 0
    /\ UNCHANGED <<buffer, block, allowUnregistered, log, cursorVars>>

\* The call went through undefined behaviour: the process is stopped
\* ("crash"), or the call returns failure.
Undefined(errs) ==
    /\ \E res \in {"crash", "failure"} : ReturnAt("undefined", res, errs)
    /\ ops' = <<>> /\ blocks' = <<>> /\ placeholders' = 0
    /\ UNCHANGED <<buffer, block, allowUnregistered, log, cursorVars>>

\* The window w is one the step at the cursor can have drawn: the step
\* fails in it, or succeeds having consumed all of it.
Drawn(w, r) == ~r.ok \/ empty(r.rd)

\* isBytecode comparing three bytes of the magic number (a mutant of
\* isBytecode).
isBytecodeThreeBytes(buf) == Len(buf) >= 3 /\ SubSeq(buf, 1, 3) = SubSeq(Magic, 1, 3)

\* mlir::isBytecode
isBytecode(buf) == Len(buf) >= Len(Magic) /\ SubSeq(buf, 1, Len(Magic)) = Magic

Init ==
    /\ NoCursor
    /\ pc = "readBytecodeFile" /\ result = "none" /\ diags = <<>>
    /\ diagHandler = FALSE /\ window = <<>> /\ log = <<>>
    /\ buffer \in BufferHeads
    /\ \E config \in Configs : block = config[1] /\ allowUnregistered = config[2]
    /\ version = 0 /\ producer = <<>> /\ sectionDatas = NoSections
    /\ strings = <<>> /\ dialects = <<>> /\ opNames = <<>>
    /\ attributes = <<>> /\ types = <<>>
    /\ regionStack = <<>> /\ valueScopes = <<>>
    /\ forwardRefOps = <<>> /\ openForwardRefOps = <<>>
    /\ ops = <<>> /\ blocks = <<>> /\ placeholders = 0

\* The step of read() after `phase`, with the string section left out (a
\* mutant of handlerAfter).
handlerAfterStrings(phase) ==
    CASE phase = "sections"            -> "parseDialectSection"
      [] phase = "parseStringSection"  -> "parseDialectSection"
      [] phase = "parseDialectSection" -> "initialize"
      [] phase = "initialize"          -> "parseIRSection"

\* The step of read() that follows `phase`: the sections are processed in the
\* order of the statements of read().
handlerAfter(phase) ==
    CASE phase = "sections"            -> "parseStringSection"
      [] phase = "parseStringSection"  -> "parseDialectSection"
      [] phase = "parseDialectSection" -> "initialize"
      [] phase = "initialize"          -> "parseIRSection"

\* read() after the header was skipped.
HeaderSkipped(skipped) ==
    IF ~skipped.ok THEN Failure(<<skipped.err>>)
    ELSE /\ pc' = "parseVersion"
         /\ UNCHANGED <<result, diags, diagHandler, buffer, block,
                        allowUnregistered, log, tableVars, irVars, cursorVars>>

\* readBytecodeFile up to the header skip of read().
ReadBytecodeFile ==
    /\ pc = "readBytecodeFile"
    /\ window' = buffer
    /\ IF ~isBytecode(buffer)
       THEN Failure(<<Err("input buffer is not an MLIR bytecode file", 0, 0)>>)
       ELSE HeaderSkipped(skipBytes(Reader(buffer), Len(Magic)))

\* The validation of parseVersion accepting every version from kVersion on (a
\* mutant of validateVersion).
validateVersionAtLeast(v) ==
    IF ~v.ok THEN v
    ELSE IF ToNat(v.value) < kVersion
    THEN FailWith(v.rd, Err("bytecode version is older than the current version, and upgrade is not supported", ToNat(v.value), kVersion), v.value)
    ELSE v

\* parseVersion after the version was parsed: the validation.
validateVersion(v) ==
    IF ~v.ok THEN v
    ELSE IF ToNat(v.value) < kVersion
    THEN FailWith(v.rd, Err("bytecode version is older than the current version, and upgrade is not supported", ToNat(v.value), kVersion), v.value)
    ELSE IF ToNat(v.value) > kVersion
    THEN FailWith(v.rd, Err("bytecode version is newer than the current version", ToNat(v.value), kVersion), v.value)
    ELSE v

\* BytecodeReader::parseVersion; the value is the version read.
parseVersion(rd) == validateVersion(parseVarInt(rd))

VersionParsed(w, r) ==
    /\ Drawn(w, r)
    /\ window' = w
    /\ IF ~r.ok THEN Failure(<<r.err>>)
       ELSE /\ pc' = "parseProducer"
            /\ version' = ToNat(r.value)
            /\ log' = Append(log, "parseVersion")
            /\ UNCHANGED <<result, diags, diagHandler, buffer, block,
                           allowUnregistered, producer, sectionDatas,
                           strings, dialects, opNames, attributes, types,
                           irVars, cursorVars>>

ParseVersion ==
    /\ pc = "parseVersion"
    /\ \E w \in VersionInputs : VersionParsed(w, parseVersion(Reader(w)))

ProducerParsed(w, r) ==
    /\ Drawn(w, r)
    /\ window' = w
    /\ IF ~r.ok THEN Failure(<<r.err>>)
       ELSE /\ pc' = "sections"
            /\ producer' = r.value
            /\ diagHandler' = TRUE
            /\ log' = Append(log, "parseProducer")
            /\ UNCHANGED <<result, diags, buffer, block,
                           allowUnregistered, version, sectionDatas,
                           strings, dialects, opNames, attributes, types,
                           irVars, cursorVars>>

\* reader.parseNullTerminatedString(producer), then the diagnostic handler.
ParseProducer ==
    /\ pc = "parseProducer"
    /\ \E w \in ProducerInputs :
           ProducerParsed(w, parseNullTerminatedString(Reader(w)))

BadSectionParsed(w, r) ==
    /\ ~r.ok
    /\ window' = w
    /\ Failure(<<r.err>>)

\* One turn of the loop of read() over the section records, on a record
\* that parseSection rejects: parseSection and the return of read().
ParseBadSectionRecord ==
    /\ pc = "sections"
    /\ \E w \in BadSectionRecords : BadSectionParsed(w, parseSection(Reader(w)))

\* The same turn on a record that parseSection accepts, and the duplicate
\* check.  The length and the payload of the record (shown as -1 in the
\* window) are fixed by the step that parses the section.
ParseSectionRecord ==
    /\ pc = "sections"
    /\ \E sectionID \in 0..(kNumSections - 1) :
        /\ window' = <<sectionID, -1>>
        /\ IF sectionDatas[sectionID]
           THEN Failure(<<Err("duplicate top-level section: ", sectionID, 0)>>)
           ELSE /\ sectionDatas' = [sectionDatas EXCEPT ![sectionID] = TRUE]
                /\ UNCHANGED <<pc, result, diags, diagHandler, buffer, block,
                               allowUnregistered, log, version, producer,
                               strings, dialects, opNames, attributes, types,
                               irVars, cursorVars>>

\* The sections with no data, the IR section left out (a mutant of
\* MissingSections).
MissingTableSections == {i \in 0..(kIR - 1) : ~sectionDatas[i]}

\* The sections with no data.
MissingSections == {i \in 0..(kNumSections - 1) : ~sectionDatas[i]}

\* The exit of the loop when the reader is empty, and the check that all of
\* the sections were found, in increasing order of id.
CheckSections ==
    /\ pc = "sections"
    /\ window' = <<>>
    /\ IF MissingSections # {}
       THEN Failure(<<Err("missing data for top-level section: ",
                          CHOOSE i \in MissingSections :
                              \A j \in MissingSections : i <= j, 0)>>)
       ELSE /\ pc' = handlerAfter("sections")
            /\ log' = Append(log, "sections")
            /\ UNCHANGED <<result, diags, diagHandler, buffer, block,
                           allowUnregistered, tableVars, irVars, cursorVars>>

StringSectionParsed(sectionData, r) ==
    /\ window' = sectionData
    /\ IF ~r.ok THEN Failure(<<r.err>>)
       ELSE /\ pc' = handlerAfter("parseStringSection")
            /\ strings' = r.value
            /\ log' = Append(log, "parseStringSection")
            /\ UNCHANGED <<result, diags, diagHandler, buffer, block,
                           allowUnregistered, version, producer,
                           sectionDatas, dialects, opNames, attributes,
                           types, irVars, cursorVars>>

ParseStringSection ==
    /\ pc = "parseStringSection"
    /\ \E sectionData \in StringSections :
           StringSectionParsed(sectionData, parseStringSection(sectionData))

DialectSectionParsed(sectionData, r) ==
    /\ window' = sectionData
    /\ IF ~r.ok THEN Failure(<<r.err>>)
       ELSE /\ pc' = handlerAfter("parseDialectSection")
            /\ dialects' = r.value.dialects
            /\ opNames' = r.value.opNames
            /\ log' = Append(log, "parseDialectSection")
            /\ UNCHANGED <<result, diags, diagHandler, buffer, block,
                           allowUnregistered, version, producer,
                           sectionDatas, strings, attributes, types,
                           irVars, cursorVars>>

ParseDialectSection ==
    /\ pc = "parseDialectSection"
    /\ \E sectionData \in DialectSections :
           DialectSectionParsed(sectionData,
                                parseDialectSection(sectionData, strings))

AttrTypeReaderInitialized(offsetSectionData, r) ==
    /\ window' = offsetSectionData
    /\ IF r.ub THEN Undefined(IF r.ok THEN <<>> ELSE <<r.err>>)
       ELSE IF ~r.ok THEN Failure(<<r.err>>)
       ELSE /\ pc' = handlerAfter("initialize")
            /\ attributes' = r.value.attributes
            /\ types' = r.value.types
            /\ log' = Append(log, "initialize")
            /\ UNCHANGED <<result, diags, diagHandler, buffer, block,
                           allowUnregistered, version, producer,
                           sectionDatas, strings, dialects, opNames,
                           irVars, cursorVars>>

\* attrTypeReader.initialize; the window is the offset section.
InitializeAttrTypeReader ==
    /\ pc = "initialize"
    /\ \E sectionData \in AttrTypeSections,
          offsetSectionData \in AttrTypeOffsetSections :
           AttrTypeReaderInitialized(offsetSectionData,
               initialize(dialects, sectionData, offsetSectionData))

-----------------------------------------------------------------------------
\* The IR section: the inputs.

\* The most operations a read creates.
MaxOps == 3

EncSeq(q) == Enc(Len(q)) \o Concat([i \in DOMAIN q |-> Enc(q[i])])

\* The encoding of an operation.  An optional component is <<>> when absent
\* and <<c>> when present: attrs the index of the dictionary, results the
\* list of type indices, operands the list of value indices, successors the
\* list of block indices, regions the pair <<numRegions, isIsolatedFromAbove>>.
EncodeOp(name, loc, attrs, results, operands, successors, regions) ==
    Concat(<<Enc(name),
             <<(IF attrs = <<>> THEN 0 ELSE kHasAttrs)
               + (IF results = <<>> THEN 0 ELSE kHasResults)
               + (IF operands = <<>> THEN 0 ELSE kHasOperands)
               + (IF successors = <<>> THEN 0 ELSE kHasSuccessors)
               + (IF regions = <<>> THEN 0 ELSE kHasInlineRegions)>>,
             Enc(loc),
             IF attrs = <<>> THEN <<>> ELSE Enc(attrs[1]),
             IF results = <<>> THEN <<>> ELSE EncSeq(results[1]),
             IF operands = <<>> THEN <<>> ELSE EncSeq(operands[1]),
             IF successors = <<>> THEN <<>> ELSE EncSeq(successors[1]),
             IF regions = <<>> THEN <<>>
             ELSE EncWithFlag(regions[1][1], regions[1][2])>>)

\* Operations that parse where the tables and the value scope allow it:
\* "b.m" bare, "u.m" of the unregistered dialect with a dictionary, and
\* "b.m" with a result, with an operand and a successor, with an operand
\* that is its own result, with a region, with an isolated region.
GoodOps ==
    {EncodeOp(0, 0, <<>>, <<>>, <<>>, <<>>, <<>>),
     EncodeOp(1, 0, <<1>>, <<>>, <<>>, <<>>, <<>>),
     EncodeOp(2, 0, <<>>, <<>>, <<>>, <<>>, <<>>),
     EncodeOp(0, 0, <<>>, <<<<0>>>>, <<>>, <<>>, <<>>),
     EncodeOp(0, 0, <<>>, <<>>, <<<<0>>>>, <<<<0>>>>, <<>>),
     EncodeOp(0, 0, <<>>, <<<<0>>>>, <<<<0>>>>, <<>>, <<>>),
     EncodeOp(0, 0, <<>>, <<>>, <<>>, <<>>, <<<<1, FALSE>>>>),
     EncodeOp(0, 0, <<>>, <<>>, <<>>, <<>>, <<<<1, TRUE>>>>)}

\* Operations that fail in the tables given: an operation name, a location,
\* a dictionary, a type, a value or a successor that is out of range, of the
\* wrong kind, not parsable or in a custom encoding.
BadOps ==
    {EncodeOp(3, 0, <<>>, <<>>, <<>>, <<>>, <<>>),
     EncodeOp(0, 1, <<>>, <<>>, <<>>, <<>>, <<>>),
     EncodeOp(0, 3, <<>>, <<>>, <<>>, <<>>, <<>>),
     EncodeOp(0, 4, <<>>, <<>>, <<>>, <<>>, <<>>),
     EncodeOp(0, 0, <<0>>, <<>>, <<>>, <<>>, <<>>),
     EncodeOp(0, 0, <<>>, <<<<1>>>>, <<>>, <<>>, <<>>),
     EncodeOp(0, 0, <<>>, <<<<2>>>>, <<>>, <<>>, <<>>),
     EncodeOp(0, 0, <<>>, <<>>, <<<<5>>>>, <<>>, <<>>),
     EncodeOp(0, 0, <<>>, <<>>, <<>>, <<<<3>>>>, <<>>)}

OpInputs ==
    GoodOps \cup BadOps
    \cup Truncations(EncodeOp(0, 0, <<1>>, <<<<0>>>>, <<<<0>>>>, <<<<0>>>>,
                              <<<<1, FALSE>>>>))

\* A block header: the number of operations, and the arguments as pairs
\* <<type, location>> when the block has any.
EncodeBlock(numOps, hasArgs, args) ==
    EncWithFlag(numOps, hasArgs)
    \o (IF hasArgs
        THEN Enc(Len(args))
             \o Concat([i \in DOMAIN args |-> Enc(args[i][1]) \o Enc(args[i][2])])
        ELSE <<>>)

\* The header of the top-level block.
TopBlockInputs ==
    {EncodeBlock(n, FALSE, <<>>) : n \in 0..2}
    \cup {EncodeBlock(1, TRUE, <<>>), EncodeBlock(0, TRUE, <<<<0, 0>>>>),
          EncodeBlock(0, TRUE, <<<<1, 0>>>>), <<>>, EncWithFlag(1, TRUE)}

\* The header of a block of a region.
BlockInputs ==
    {EncodeBlock(0, FALSE, <<>>), EncodeBlock(1, FALSE, <<>>),
     EncodeBlock(0, TRUE, <<<<0, 0>>>>),
     EncodeBlock(0, TRUE, <<<<1, 0>>>>), EncodeBlock(0, TRUE, <<<<0, 1>>>>),
     <<>>}

\* The header of a region: the number of blocks and, when there are any, the
\* number of values and the header of the entry block.
RegionInputs ==
    {Enc(0), <<>>, Enc(1),
     Enc(1) \o Enc(0) \o EncodeBlock(1, FALSE, <<>>),
     Enc(1) \o Enc(1) \o EncodeBlock(1, FALSE, <<>>),
     Enc(2) \o Enc(1) \o EncodeBlock(1, FALSE, <<>>),
     Enc(1) \o Enc(2) \o EncodeBlock(1, TRUE, <<<<0, 0>>>>),
     Enc(1) \o Enc(0) \o EncodeBlock(0, TRUE, <<<<0, 0>>>>)}

-----------------------------------------------------------------------------
\* The IR section: parseIRSection and parseRegions.

\* The BytecodeReader as a machine about to parse the window w.
Machine(w) ==
    [ok |-> TRUE, rd |-> Reader(w), val |-> <<>>, errs |-> <<>>, ub |-> FALSE,
     dialects |-> dialects, opNames |-> opNames,
     attributes |-> attributes, types |-> types,
     valueScopes |-> valueScopes, forwardRefOps |-> forwardRefOps,
     openForwardRefOps |-> openForwardRefOps, placeholders |-> placeholders,
     ops |-> ops, blocks |-> blocks]

\* The members of the machine m written back, but for the value scopes.
Store(m) ==
    /\ dialects' = m.dialects /\ opNames' = m.opNames
    /\ attributes' = m.attributes /\ types' = m.types
    /\ forwardRefOps' = m.forwardRefOps
    /\ openForwardRefOps' = m.openForwardRefOps
    /\ placeholders' = m.placeholders
    /\ ops' = m.ops /\ blocks' = m.blocks

SetBack(stack, x) == [stack EXCEPT ![Len(stack)] = x]

\* The operations that the blocks being read have declared and not yet read.
RECURSIVE Pending(_)
Pending(stack) ==
    IF stack = <<>> THEN 0
    ELSE Pending(Front(stack))
         + (IF Last(stack).numOpsRemaining > 0 THEN Last(stack).numOpsRemaining
            ELSE 0)

\* The step that parsed the window w with outcome r continues with the frames
\* `stack` and the value scopes `scopes`, or returns.  A window that declares
\* more operations than MaxOps allows is not drawn.
Parsed(w, r, stack, scopes) ==
    /\ Drawn(w, r)
    /\ window' = w
    /\ IF r.ub THEN Undefined(r.errs)
       ELSE IF ~r.ok THEN Failure(r.errs)
       ELSE /\ Len(r.ops) + Pending(stack) <= MaxOps
            /\ pc' = "parseRegions"
            /\ regionStack' = stack
            /\ valueScopes' = scopes
            /\ Store(r)
            /\ log' = IF pc = "parseIRSection" THEN Append(log, "parseIRSection")
                      ELSE log
            /\ UNCHANGED <<result, diags, diagHandler, buffer, block,
                           allowUnregistered, version, producer,
                           sectionDatas, strings, cursorVars>>

\* The frame of the temporary module with one value reserved (a mutant of
\* ModuleState).
ModuleStateOneValue ==
    [RegionReadState(0, 1, TRUE) EXCEPT !.curBlocks = <<1>>, !.curBlock = 1,
                                        !.numValues = 1]

\* The frame of the temporary module, at its body.
ModuleState ==
    [RegionReadState(0, 1, TRUE) EXCEPT !.curBlocks = <<1>>, !.curBlock = 1]

\* parseIRSection after the top-level block was parsed: the value scope.
TopLevelParsed(w, header) ==
    Parsed(w, header,
           IF header.ok THEN <<[ModuleState EXCEPT !.numOpsRemaining = header.val]>>
           ELSE <<>>,
           IF header.ok
           THEN Append(header.valueScopes, ScopePush(ValueScope, ModuleState))
           ELSE <<>>)

\* parseIRSection up to the loop over the region stack: the temporary
\* module, its frame, the header of the top-level block, the value scope.
ParseIRSection ==
    /\ pc = "parseIRSection"
    /\ \E w \in TopBlockInputs :
           TopLevelParsed(w, parseBlock([Machine(w) EXCEPT !.blocks = <<NewBlock>>], 1))

\* The frame parseRegions works on.
Back == regionStack[Len(regionStack)]

\* parseRegions after parseRegion: the step to the next region when this
\* one is empty.
RegionParsed(w, r) ==
    Parsed(w, r,
           IF ~r.ok THEN <<>>
           ELSE SetBack(regionStack,
                        IF CurRegion(r.ops, r.val) = <<>>
                        THEN [r.val EXCEPT !.curRegion = @ + 1]
                        ELSE r.val),
           r.valueScopes)

\* parseRegions at a region whose header has not been read.
ParseRegion ==
    /\ pc = "parseRegions" /\ regionStack # <<>>
    /\ Back.curRegion # Back.endRegion
    /\ Back.curBlock = 0
    /\ \E w \in RegionInputs : RegionParsed(w, parseRegion(Machine(w), Back))

\* parseRegions pushing a value scope for every operation with regions,
\* isolated from above or not (a mutant of OperationParsed).
OperationParsedScoped(w, r, readState) ==
    Parsed(w, r,
           IF ~r.ok THEN <<>>
           ELSE IF r.ops[r.val.op].regions # <<>>
           THEN Append(SetBack(regionStack, readState),
                       RegionReadState(r.val.op, Len(r.ops[r.val.op].regions),
                                       r.val.isIsolatedFromAbove))
           ELSE SetBack(regionStack, readState),
           IF r.ok /\ r.ops[r.val.op].regions # <<>>
           THEN Append(r.valueScopes, ValueScope)
           ELSE r.valueScopes)

\* parseRegions leaving numOpsRemaining of the frame as it was before the
\* operation (a mutant of OperationParsed).
OperationParsedNotCounted(w, r, readState) ==
    Parsed(w, r,
           IF ~r.ok THEN <<>>
           ELSE IF r.ops[r.val.op].regions # <<>>
           THEN Append(regionStack,
                       RegionReadState(r.val.op, Len(r.ops[r.val.op].regions),
                                       r.val.isIsolatedFromAbove))
           ELSE regionStack,
           IF r.ok /\ r.ops[r.val.op].regions # <<>> /\ r.val.isIsolatedFromAbove
           THEN Append(r.valueScopes, ValueScope)
           ELSE r.valueScopes)

\* parseRegions after parseOpWithoutRegions: the new frame (and value scope)
\* when the operation has regions.
OperationParsed(w, r, readState) ==
    Parsed(w, r,
           IF ~r.ok THEN <<>>
           ELSE IF r.ops[r.val.op].regions # <<>>
           THEN Append(SetBack(regionStack, readState),
                       RegionReadState(r.val.op, Len(r.ops[r.val.op].regions),
                                       r.val.isIsolatedFromAbove))
           ELSE SetBack(regionStack, readState),
           IF r.ok /\ r.ops[r.val.op].regions # <<>> /\ r.val.isIsolatedFromAbove
           THEN Append(r.valueScopes, ValueScope)
           ELSE r.valueScopes)

\* The frame after `while (readState.numOpsRemaining--)`.
InLoop == [Back EXCEPT !.numOpsRemaining = Decrement(@)]

\* parseRegions at an operation of the current block.
ParseOperation ==
    /\ pc = "parseRegions" /\ regionStack # <<>>
    /\ Back.curRegion # Back.endRegion
    /\ Back.curBlock # 0
    /\ Back.numOpsRemaining # 0
    /\ Len(ops) < MaxOps
    /\ \E w \in OpInputs :
           OperationParsed(w, parseOpWithoutRegions(Machine(w), InLoop,
                                                    allowUnregistered),
                           InLoop)

BlockParsed(w, r) ==
    Parsed(w, r,
           IF ~r.ok THEN <<>>
           ELSE SetBack(regionStack, [Back EXCEPT !.curBlock = @ + 1,
                                                  !.numOpsRemaining = r.val]),
           r.valueScopes)

\* parseRegions at the end of a block that is not the last of its region:
\* the step to the next block and parseBlock.
ParseNextBlock ==
    /\ pc = "parseRegions" /\ regionStack # <<>>
    /\ Back.curRegion # Back.endRegion
    /\ Back.curBlock # 0
    /\ Back.numOpsRemaining = 0
    /\ Back.curBlock < Len(CurRegion(ops, Back))
    /\ \E w \in BlockInputs :
           BlockParsed(w, parseBlock(Machine(w),
                                     CurRegion(ops, Back)[Back.curBlock + 1]))

\* parseRegions at the end of the last block of a region: the current block
\* is reset, the values of the region are popped, the next region is current.
EndRegion ==
    /\ pc = "parseRegions" /\ regionStack # <<>>
    /\ Back.curRegion # Back.endRegion
    /\ Back.curBlock # 0
    /\ Back.numOpsRemaining = 0
    /\ Back.curBlock = Len(CurRegion(ops, Back))
    /\ window' = <<>>
    /\ regionStack' = SetBack(regionStack,
                              [Back EXCEPT !.numOpsRemaining = Decrement(@),
                                           !.curBlock = 0,
                                           !.curRegion = @ + 1])
    /\ valueScopes' = SetBack(valueScopes, ScopePop(Last(valueScopes), Back))
    /\ UNCHANGED <<pc, result, diags, diagHandler, buffer, block,
                   allowUnregistered, log, tableVars, forwardRefOps,
                   openForwardRefOps, ops, blocks, placeholders, cursorVars>>

\* parseRegions at the end of the regions of a frame, leaving the frame on the
\* stack (a mutant of PopRegions).
PopRegionsKeepFrame ==
    /\ pc = "parseRegions" /\ regionStack # <<>>
    /\ Back.curRegion = Back.endRegion
    /\ window' = <<>>
    /\ UNCHANGED <<pc, result, diags, diagHandler, buffer, block,
                   allowUnregistered, log, tableVars, regionStack, valueScopes,
                   forwardRefOps, openForwardRefOps, ops, blocks, placeholders,
                   cursorVars>>

\* parseRegions once the regions of the frame are read: the frame is popped,
\* and the value scope with it when the operation is isolated from above.
PopRegions ==
    /\ pc = "parseRegions" /\ regionStack # <<>>
    /\ Back.curRegion = Back.endRegion
    /\ window' = <<>>
    /\ valueScopes' = IF Back.isIsolatedFromAbove THEN Front(valueScopes)
                      ELSE valueScopes
    /\ regionStack' = Front(regionStack)
    /\ UNCHANGED <<pc, result, diags, diagHandler, buffer, block,
                   allowUnregistered, log, tableVars, forwardRefOps,
                   openForwardRefOps, ops, blocks, placeholders, cursorVars>>

\* destOps.splice(destOps.empty() ? destOps.end() : std::prev(destOps.end()),
\*                parsedOps, parsedOps.begin(), parsedOps.end())
splice(destOps, parsedOps) ==
    IF destOps = <<>> THEN parsedOps
    ELSE Front(destOps) \o parsedOps \o <<Last(destOps)>>

\* The operations of the body of the temporary module.
ParsedOps == [i \in DOMAIN blocks[1].operations |-> ParsedOp(blocks[1].operations[i])]

\* The checks at the end of parseIRSection with the forward references left
\* unchecked (a mutant of finalChecks).
finalChecksVerifierOnly(refs, verified) ==
    IF ~verified THEN <<Err("verifier: the module is invalid", 0, 0)>>
    ELSE <<>>

\* The checks of parseIRSection once the region stack is empty, as the
\* errors they emit: the forward references, then the verifier (which
\* accepts or rejects).
finalChecks(refs, verified) ==
    IF refs # <<>>
    THEN <<Err("not all forward unresolved forward operand references", 0, 0)>>
    ELSE IF ~verified THEN <<Err("verifier: the module is invalid", 0, 0)>>
    ELSE <<>>

Finished(errs) ==
    IF errs # <<>> THEN Failure(errs)
    ELSE /\ Return("success", <<>>)
         /\ block' = splice(block, ParsedOps)
         /\ blocks' = [blocks EXCEPT ![1].operations = <<>>]
         /\ log' = Append(log, "splice")
         /\ UNCHANGED <<buffer, allowUnregistered, ops, placeholders,
                        cursorVars>>

\* The bytes of the IR section behind the last region parsed: the reader of
\* parseIRSection is not looked at once the region stack is empty.
IRSectionTails == {<<>>, <<0>>}

\* parseIRSection once the region stack is empty: the checks, the splice.
\* The window is what the section still holds at the cursor.
FinishIRSection ==
    /\ pc = "parseRegions" /\ regionStack = <<>>
    /\ window' \in IRSectionTails
    /\ \E verified \in BOOLEAN : Finished(finalChecks(forwardRefOps, verified))

Next ==
    \/ ReadBytecodeFile
    \/ ParseVersion
    \/ ParseProducer
    \/ ParseBadSectionRecord
    \/ ParseSectionRecord
    \/ CheckSections
    \/ ParseStringSection
    \/ ParseDialectSection
    \/ InitializeAttrTypeReader
    \/ ParseIRSection
    \/ ParseRegion
    \/ ParseOperation
    \/ ParseNextBlock
    \/ EndRegion
    \/ PopRegions
    \/ FinishIRSection

Spec == Init /\ [][Next]_vars

\* The call runs in one thread that is never suspended for good: a step that
\* can be taken is taken.
\* The read of the termination specification is into an empty block:
\* no step of the loop of parseIRSection reads the target block.
InitLive == Init /\ block = <<>>

SpecLive == InitLive /\ [][Next]_vars /\ WF_vars(Next)

-----------------------------------------------------------------------------
\* The properties checked.

\* The diagnostic emitted last.
LastErr == diags[Len(diags)].err

Logged(phase) == \E i \in DOMAIN log : log[i] = phase

\* The operations of a target block that were in it before the call, and
\* those that the call moved into it.
OldOps(destOps) == SelectSeq(destOps, LAMBDA o : ~o.parsed)

NewOps(destOps) == SelectSeq(destOps, LAMBDA o : o.parsed)

\* C1: every step of readBytecodeFile that does not return success leaves
\* the operation list of the target block as it was, so that a call that
\* returns failure returns with the list it was given; the list changes only
\* in the step that returns success, taken when the whole IR section is
\* parsed (the region stack is empty), no forward reference is open and the
\* verifier has accepted.
C1_FailureLeavesBlock ==
    [][/\ result' # "success" => block' = block
       /\ result' = "failure" => \A i \in DOMAIN block' : ~block'[i].parsed
       /\ block' # block =>
              /\ pc = "parseRegions" /\ regionStack = <<>>
              /\ forwardRefOps = <<>>
              /\ result' = "success"]_vars

\* The read has failed on an open forward reference, after operations were
\* created, with a target block that held operations.
C1_Witness ==
    /\ result = "failure"
    /\ Logged("parseIRSection")
    /\ LastErr = Err("not all forward unresolved forward operand references", 0, 0)
    /\ block # <<>>
    /\ block \in {config[1] : config \in Configs}

\* C2 as stated: after a successful read the parsed top-level operations
\* stand immediately before the terminator of the target block when it has
\* one, and otherwise after every operation that was in the block.
C2_SplicePosition ==
    result = "success" =>
        block = IF OldOps(block) # <<>> /\ Last(OldOps(block)).terminator
                THEN Front(OldOps(block)) \o NewOps(block) \o <<Last(OldOps(block))>>
                ELSE OldOps(block) \o NewOps(block)

\* The operations of the body of the temporary module, and the number that
\* its header declared and parseRegions has not read yet.
TopOps(blks) == IF blks = <<>> THEN <<>> ELSE blks[1].operations

TopRemaining(stack) ==
    IF stack = <<>> \/ stack[1].numOpsRemaining < 0 THEN 0
    ELSE stack[1].numOpsRemaining

\* C3: the operations that a successful read adds to the target block are
\* the operations encoded in the top-level block.  The header of that block
\* declares n operations and leaves the body of the temporary module empty;
\* every later step keeps the sum of the operations in the body and of those
\* still to read, and only appends the operation it creates to the body; the
\* step that returns success is taken with none left to read, adds the
\* operations of the body in their order, and keeps those that were in the
\* target block in theirs.
C3_SplicedOps ==
    [][/\ (pc = "parseIRSection" /\ pc' = "parseRegions") =>
              /\ \E n \in 0..MaxOps :
                     /\ window' = EncodeBlock(n, FALSE, <<>>)
                     /\ TopRemaining(regionStack') = n
              /\ TopOps(blocks') = <<>>
       /\ (pc = "parseRegions" /\ pc' = "parseRegions") =>
              /\ Len(TopOps(blocks')) + TopRemaining(regionStack')
                     = Len(TopOps(blocks)) + TopRemaining(regionStack)
              /\ \/ TopOps(blocks') = TopOps(blocks)
                 \/ /\ TopOps(blocks') = Append(TopOps(blocks), Len(ops'))
                    /\ Len(ops') = Len(ops) + 1
       /\ result' = "success" =>
              /\ regionStack = <<>>
              /\ NewOps(block') = [i \in DOMAIN TopOps(blocks) |->
                                       ParsedOp(TopOps(blocks)[i])]
              /\ \A i, j \in DOMAIN TopOps(blocks) :
                     i < j => TopOps(blocks)[i] < TopOps(blocks)[j]
              /\ OldOps(block') = block]_vars

\* Two top-level operations have been added to a target block that held
\* operations.
C3_Witness ==
    /\ result = "success"
    /\ Len(NewOps(block)) = 2
    /\ Len(OldOps(block)) = 2

\* C4: a read returns success only from the state where the region stack is
\* empty and no forward reference is open; when the region stack is empty and
\* a forward reference is still open (whether or not a value slot still holds
\* it), the read returns failure having emitted "not all forward unresolved
\* forward operand references", and the target block is as it was.
C4_ForwardRefs ==
    [][/\ result' = "success" =>
              /\ pc = "parseRegions" /\ regionStack = <<>>
              /\ forwardRefOps = <<>>
       /\ (pc = "parseRegions" /\ regionStack = <<>> /\ forwardRefOps # <<>>) =>
              /\ result' = "failure"
              /\ diags' = Append(diags, Emitted(Err("not all forward unresolved forward operand references", 0, 0)))
              /\ block' = block]_vars

\* The read has failed on an open forward reference and has emitted that one
\* diagnostic.
C4_Witness ==
    /\ result = "failure"
    /\ Len(diags) = 1
    /\ LastErr = Err("not all forward unresolved forward operand references", 0, 0)
    /\ diags[1].note

\* The step from the unprimed state has returned failure having emitted err
\* and nothing else.
FailsWith(err) ==
    /\ result' = "failure" /\ pc' = "done"
    /\ Len(diags') = Len(diags) + 1
    /\ SubSeq(diags', 1, Len(diags)) = diags
    /\ diags'[Len(diags')].err = err

\* w is a section record with an id that is not one of the five defined ones
\* and a whole length field.
InvalidIdRecord(w) ==
    /\ Len(w) >= 2
    /\ w[1] >= kNumSections
    /\ \E n \in 0..MaxSmall :
           /\ Len(w) >= 1 + Len(Enc(n))
           /\ SubSeq(w, 2, 1 + Len(Enc(n))) = Enc(n)

\* C5: the loop of read() over the section records leaves for the section
\* handlers only when the cursor is empty and each of the ids 0..4 was seen,
\* and a seen id is recorded once: a record whose id was seen before fails
\* with "duplicate top-level section", a record whose id is 5 or more fails
\* with "invalid section ID", and the empty cursor with an id not seen fails
\* with "missing data for top-level section".
C5_SectionIds ==
    [][pc = "sections" =>
         /\ pc' \notin {"sections", "done"} =>
                /\ window' = <<>>
                /\ \A id \in 0..4 : sectionDatas[id]
         /\ \A id \in 0..4 :
                window' = <<id, -1>> =>
                    IF sectionDatas[id]
                    THEN FailsWith(Err("duplicate top-level section: ", id, 0))
                    ELSE /\ pc' = "sections"
                         /\ sectionDatas' = [sectionDatas EXCEPT ![id] = TRUE]
         /\ InvalidIdRecord(window') =>
                FailsWith(Err("invalid section ID: ", window'[1], 0))
         /\ (window' = <<>> /\ \E id \in 0..4 : ~sectionDatas[id]) =>
                \E id \in 0..4 :
                    /\ ~sectionDatas[id]
                    /\ FailsWith(Err("missing data for top-level section: ", id, 0))]_vars

\* The read has failed on a second record of the IR section.
C5_Witness ==
    /\ result = "failure"
    /\ window = <<kIR, -1>>
    /\ LastErr = Err("duplicate top-level section: ", kIR, 0)

\* The steps of read() in their order.
HandlerOrder ==
    <<"parseVersion", "parseProducer", "sections", "parseStringSection",
      "parseDialectSection", "initialize", "parseIRSection", "splice">>

\* C6: the steps of read() that have succeeded are an initial part of the
\* fixed order version, producer, section records, String, Dialect, AttrType,
\* IR, splice, in whatever order the section records were gathered; a section
\* handler is about to run only when all the steps before it have succeeded,
\* all five sections are gathered and no diagnostic was emitted.
C6_HandlerOrder ==
    /\ \E n \in 0..Len(HandlerOrder) : log = SubSeq(HandlerOrder, 1, n)
    /\ pc = "parseStringSection" => log = SubSeq(HandlerOrder, 1, 3)
    /\ pc = "parseDialectSection" => log = SubSeq(HandlerOrder, 1, 4)
    /\ pc = "initialize" => log = SubSeq(HandlerOrder, 1, 5)
    /\ pc = "parseIRSection" => log = SubSeq(HandlerOrder, 1, 6)
    /\ pc = "parseRegions" => log = SubSeq(HandlerOrder, 1, 7)
    /\ pc \in {"parseStringSection", "parseDialectSection", "initialize",
               "parseIRSection", "parseRegions"} =>
           /\ \A id \in 0..4 : sectionDatas[id]
           /\ diags = <<>>

\* The four handlers have run, the IR handler being at work.
C6_Witness ==
    /\ pc = "parseRegions"
    /\ ops # <<>>
    /\ log = SubSeq(HandlerOrder, 1, 7)

StartsWithMagic(buf) ==
    /\ Len(buf) >= 4
    /\ buf[1] = 77 /\ buf[2] = 76 /\ buf[3] = 239 /\ buf[4] = 82

\* C8: isBytecode(buffer) is true iff the buffer has at least four bytes, the
\* first four being 0x4D 0x4C 0xEF 0x52; on a buffer where it is false
\* readBytecodeFile returns failure having emitted "input buffer is not an
\* MLIR bytecode file" and nothing else, and parses no version and no section.
C8_IsBytecode ==
    /\ isBytecode(buffer) <=> StartsWithMagic(buffer)
    /\ ~isBytecode(<<77, 76, 73, 82>>)
    /\ ~StartsWithMagic(buffer) =>
           /\ pc \in {"readBytecodeFile", "done"}
           /\ log = <<>> /\ version = 0 /\ sectionDatas = NoSections
           /\ pc = "done" =>
                  /\ result = "failure"
                  /\ Len(diags) = 1
                  /\ LastErr = Err("input buffer is not an MLIR bytecode file", 0, 0)

\* The read of the buffer "MLIR" has failed.
C8_Witness ==
    /\ buffer = <<77, 76, 73, 82>>
    /\ pc = "done"
    /\ result = "failure"

\* The length that the first byte b0 of an encoding announces.
EncodedLength(b0) == IF b0 = 0 THEN 9 ELSE countTrailingZeros(b0) + 1

\* C9: parseVarInt applied to the shortest encoding of x returns x and
\* advances the cursor by the encoded length k + 1, k the number of trailing
\* zero bits of the first byte (9 bytes, first byte 0x00, exactly when
\* x >= 2^56); 0x55 decodes to 42 and [0x02, 0x04] to 256.
C9_VarIntRoundTrip ==
    /\ last.op = "parseVarInt" =>
           LET b0 == reader.data[last.before + 1]
           IN  /\ last.ok
               /\ last.value = vx
               /\ reader.pos = last.before + EncodedLength(b0)
               /\ EncodedLength(b0) = VarIntLength(vx)
               /\ (b0 = 0) <=> ~LessPow2(vx, 56)
    /\ parseVarInt(Reader(<<85>>)).value = Word(42)
    /\ parseVarInt(Reader(<<2, 4>>)).value = Word(256)

\* A 9-byte encoding has been read back.
C9_Witness ==
    /\ last.op = "parseVarInt"
    /\ last.ok
    /\ ~LessPow2(vx, 56)
    /\ reader.pos = last.before + 9

WithFlag(x, f) == [Shl(x, 1) EXCEPT ![1] = @ + f]

\* C11: parseVarIntWithFlag applied to the encoding of (x << 1) | f, x a
\* value of 63 bits, returns the pair (x, f) and consumes the encoding: the
\* flag is the low bit of the integer decoded and the value is that integer
\* shifted right by one.
C11_VarIntWithFlag ==
    last.op = "parseVarIntWithFlag" =>
        /\ last.ok
        /\ BitAt(last.value.result, 63) = 0
        /\ vx = WithFlag(last.value.result, IF last.value.flag THEN 1 ELSE 0)
        /\ last.value.flag <=> (BitAt(vx, 0) = 1)
        /\ reader.pos = last.before + VarIntLength(vx)

\* The pair (2^63 - 1, true) has been read back from a 9-byte encoding.
C11_Witness ==
    /\ last.op = "parseVarIntWithFlag"
    /\ last.ok
    /\ last.value.flag
    /\ last.value.result = Pow2Minus1Word(63)
    /\ reader.pos = last.before + 9

\* C12 as stated: every diagnostic of a read that passed the magic check
\* carries the note "in bytecode version <V> produced by: <producer>".
C12_Original ==
    isBytecode(buffer) => \A i \in DOMAIN diags : diags[i].note

\* C12 as amended: a diagnostic carries the note, with the version and the
\* producer read, iff it is emitted after the version and the producer were
\* parsed; the diagnostics of the magic check, of parseVersion (older, newer
\* or truncated version) and of a producer with no terminator carry no note.
C12_Note ==
    [][\A i \in (Len(diags) + 1)..Len(diags') :
           /\ diags'[i].note <=> Logged("parseProducer")
           /\ diags'[i].note <=>
                  pc \notin {"readBytecodeFile", "parseVersion", "parseProducer"}
           /\ diags'[i].note =>
                  /\ version = kVersion
                  /\ diags'[i].text = <<version, producer>>
           /\ ~diags'[i].note => diags'[i].text = <<>>]_vars

\* A diagnostic of the IR section has reached the host with the note.
C12_Witness ==
    /\ result = "failure"
    /\ Logged("parseIRSection")
    /\ diags[1].note
    /\ diags[1].text = <<kVersion, <<112>>>>

\* parseRegions is at an operation of the current block.
AtOperation ==
    /\ pc = "parseRegions" /\ regionStack # <<>>
    /\ Back.curRegion # Back.endRegion
    /\ Back.curBlock # 0
    /\ Back.numOpsRemaining # 0
    /\ Len(ops) < MaxOps

\* parseOpWithoutRegions on the bytes w, from the current state.
OpAt(w) == parseOpWithoutRegions(Machine(w), InLoop, allowUnregistered)

\* The diagnostic of a primitive that found the buffer too short.
OutOfBytes(err) ==
    err[1] \in {"attempting to parse a byte at the end of the bytecode",
                "attempting to parse n bytes when only k remain"}

\* r failed with one diagnostic; unless the bytes ran out, the same call with
\* more bytes behind (outcome `longer`) stops at the same byte with the same
\* diagnostic and the same operations.
FirstFailure(r, longer) ==
    LET short == r
        long  == longer
    IN  (~short.ok /\ ~short.ub) =>
            /\ Len(short.errs) = 1
            /\ ~OutOfBytes(short.errs[1]) =>
                   /\ ~long.ok /\ ~long.ub
                   /\ long.errs = short.errs
                   /\ long.rd.pos = short.rd.pos
                   /\ long.ops = short.ops

\* C13: a failing read has emitted exactly one diagnostic and a read that has
\* not failed has emitted none; a failing parse of an operation emits one
\* diagnostic, and what follows the failing byte is neither consumed nor
\* turned into an operation.
C13_OneDiagnostic ==
    /\ pc # "undefined" => Len(diags) = (IF result = "failure" THEN 1 ELSE 0)
    /\ AtOperation =>
           \A w \in OpInputs :
               /\ FirstFailure(OpAt(w), OpAt(w \o <<1>>))
               /\ FirstFailure(OpAt(w), OpAt(w \o <<3, 5>>))

\* An operation with an unknown name has failed the read in the IR section,
\* with bytes of the operation still to read.
C13_Witness ==
    /\ result = "failure" /\ pc = "done"
    /\ Logged("parseIRSection")
    /\ window = EncodeOp(3, 0, <<>>, <<>>, <<>>, <<>>, <<>>)
    /\ Len(diags) = 1
    /\ LastErr = Err("invalid operation name index: ", 3, 0)

\* The operation name that the bytes w start with is in the table and its
\* dialect is not known to the context.
UnknownDialectOp(w) ==
    /\ w # <<>> /\ w[1] % 2 = 1
    /\ w[1] \div 2 < Len(opNames)
    /\ dialects[opNames[w[1] \div 2 + 1].dialect + 1].name \notin RegisteredDialects

\* The dialect name and the local name of the operation name w starts with.
DialectNameOf(w) == dialects[opNames[w[1] \div 2 + 1].dialect + 1].name

LocalNameOf(w) == opNames[w[1] \div 2 + 1].name

UnknownDialect(name) ==
    Err("dialect '<name>' is unknown. If this is intended, please call allowUnregisteredDialects() on the MLIRContext, or use -allow-unregistered-dialect with the MLIR tool used.", name, 0)

\* C14: an operation whose name belongs to a dialect the context does not
\* know fails the read with "dialect '<name>' is unknown ..." and creates no
\* operation when unregistered dialects are not allowed; when they are
\* allowed the name resolves to "<dialect>.<local>", which is the name of the
\* operation created.
C14_UnknownDialect ==
    [][(AtOperation /\ UnknownDialectOp(window')) =>
          /\ ~allowUnregistered =>
                 /\ FailsWith(UnknownDialect(DialectNameOf(window')))
                 /\ OpAt(window').ops = ops
                 /\ block' = block
          /\ allowUnregistered =>
                 /\ parseOpName(Machine(window'), TRUE).ok
                 /\ parseOpName(Machine(window'), TRUE).val
                        = DialectNameOf(window') \o <<46>> \o LocalNameOf(window')
                 /\ (pc' = "done" /\ result' = "failure") =>
                        diags'[Len(diags')].err # UnknownDialect(DialectNameOf(window'))
                 /\ result' = "none" =>
                        /\ Len(ops') = Len(ops) + 1
                        /\ ops'[Len(ops')].name
                               = DialectNameOf(window') \o <<46>> \o LocalNameOf(window')]_vars

\* The read has failed on an operation of the unknown dialect "u".
C14_Witness ==
    /\ ~allowUnregistered
    /\ result = "failure" /\ Logged("parseIRSection")
    /\ LastErr = UnknownDialect(<<117>>)

\* v is the result of a forward reference operation.
IsPlaceholder(v) == v[1] = "forward"

\* The operands of the operations of opTable that are the value v.
Uses(opTable, v) ==
    {u \in UNION {{<<o, j>> : j \in DOMAIN opTable[o].operands} : o \in DOMAIN opTable} :
        opTable[u[1]].operands[u[2]] = v}

\* The placeholder p is in the list q of forward reference operations.
InPool(q, p) == \E k \in DOMAIN q : q[k] = p

\* Slot j of value scope k held a placeholder and holds another value after
\* the step.
Defined(k, j) ==
    /\ pc' = "parseRegions"
    /\ k <= Len(valueScopes') /\ j <= Len(valueScopes'[k].values)
    /\ IsPlaceholder(valueScopes[k].values[j])
    /\ valueScopes'[k].values[j] # valueScopes[k].values[j]

\* C15: when a value id held by a placeholder is defined, the operands that
\* were the placeholder are the value defined, the placeholder has no use
\* left, and its operation is in openForwardRefOps and no longer in
\* forwardRefOps; a placeholder in openForwardRefOps has no use; after a
\* successful read no operand of an operation is a placeholder.
C15_Placeholders ==
    [][/\ \A k \in DOMAIN valueScopes : \A j \in DOMAIN valueScopes[k].values :
              Defined(k, j) =>
                  /\ valueScopes'[k].values[j][1] \in {"result", "arg"}
                  /\ Uses(ops', valueScopes[k].values[j]) = {}
                  /\ \A u \in Uses(ops, valueScopes[k].values[j]) :
                         ops'[u[1]].operands[u[2]] = valueScopes'[k].values[j]
                  /\ InPool(openForwardRefOps', valueScopes[k].values[j][2])
                  /\ ~InPool(forwardRefOps', valueScopes[k].values[j][2])
       /\ \A p \in 1..placeholders' :
              InPool(openForwardRefOps', p) => Uses(ops', ForwardRefValue(p)) = {}
       /\ result' = "success" =>
              \A o \in DOMAIN ops' : \A j \in DOMAIN ops'[o].operands :
                  ~IsPlaceholder(ops'[o].operands[j])]_vars

\* An operation uses the result of a later operation, the placeholder that
\* stood for it is in openForwardRefOps.
C15_Witness ==
    /\ pc = "parseRegions"
    /\ openForwardRefOps # <<>>
    /\ \E o1 \in DOMAIN ops : \E o2 \in DOMAIN ops :
           /\ o1 < o2
           /\ ops[o1].operands # <<>>
           /\ ops[o1].operands[1][1] = "result"
           /\ ops[o1].operands[1][2] = o2

\* The n sizes of the size list that the cursor rd is at, in the order of
\* the list.
RECURSIVE SizeList(_, _)
SizeList(rd, n) ==
    IF n = 0 THEN <<>>
    ELSE <<ToNat(parseVarInt(rd).value)>> \o SizeList(parseVarInt(rd).rd, n - 1)

\* The offset of the byte right after the n sizes.
RECURSIVE DataStart(_, _)
DataStart(rd, n) ==
    IF n = 0 THEN rd.pos ELSE DataStart(parseVarInt(rd).rd, n - 1)

\* The table strs is the reading of the section w whose size list is sizes
\* and whose string data starts at offset start: string i has the size that
\* is i-th from the end of the list, the strings follow each other from
\* `start` to the end of the section, each without its terminator (a size
\* of 0 has no terminator to leave out).
ReverseMatched(strs, w, sizes, start) ==
    /\ Len(strs) = Len(sizes)
    /\ strs[1].off = start
    /\ strs[Len(strs)].off + sizes[1] = Len(w)
    /\ \A i \in DOMAIN strs :
           /\ sizes[Len(sizes) + 1 - i] # 0 =>
                  /\ strs[i].len = sizes[Len(sizes) + 1 - i] - 1
                  /\ strs[i].str = SubSeq(w, strs[i].off + 1, strs[i].off + strs[i].len)
                  /\ w[strs[i].off + strs[i].len + 1] = 0
           /\ i < Len(strs) => strs[i + 1].off = strs[i].off + sizes[Len(sizes) + 1 - i]

\* C16: a string section that parses gives a table in which the last size of
\* the size list is that of the string at the start of the string data and
\* the first size is that of the string that ends at the end of the section.
C16_ReverseSizes ==
    [][(pc = "parseStringSection" /\ pc' \notin {"done", "undefined"}) =>
          /\ Len(strings') = ToNat(parseVarInt(Reader(window')).value)
          /\ strings' # <<>> =>
                 ReverseMatched(strings', window',
                                SizeList(parseVarInt(Reader(window')).rd, Len(strings')),
                                DataStart(parseVarInt(Reader(window')).rd, Len(strings')))]_vars

\* The section with the sizes 2 and 3 was read: "bu" (size 3, the last size)
\* starts the string data, "m" (size 2, the first size) ends the section.
C16_Witness ==
    /\ Logged("parseStringSection")
    /\ pc = "parseDialectSection"
    /\ window = StringSectionTwoSizes
    /\ strings = <<[str |-> <<98, 117>>, off |-> 3, len |-> 2],
                   [str |-> <<109>>, off |-> 6, len |-> 1]>>

\* parseRegions is at the header of a region.
AtRegion ==
    /\ pc = "parseRegions" /\ regionStack # <<>>
    /\ Back.curRegion # Back.endRegion
    /\ Back.curBlock = 0

\* The bytes w start with the varint 0.
DeclaresNoBlock(w) ==
    /\ parseVarInt(Reader(w)).ok
    /\ ToNat(parseVarInt(Reader(w)).value) = 0

\* parseRegion on the bytes w has read one varint and has left the frame, the
\* blocks, the operations and the value scopes as they were.
ReadsOneVarInt(w) ==
    LET r == parseRegion(Machine(w), Back)
    IN  /\ r.ok
        /\ r.rd.pos = parseVarInt(Reader(w)).rd.pos
        /\ r.val = Back
        /\ r.blocks = blocks
        /\ r.ops = ops
        /\ r.valueScopes = valueScopes

\* C17: a region header that declares no block is read as one varint; no
\* block is created, the value scopes are as before (no slot reserved, no
\* next value id pushed) and stay so when parseRegions steps to the next
\* region, the current block still unset.
C17_EmptyRegion ==
    [][(AtRegion /\ DeclaresNoBlock(window')) =>
          /\ ReadsOneVarInt(window')
          /\ ReadsOneVarInt(window' \o <<1>>)
          /\ ReadsOneVarInt(window' \o <<3, 5>>)
          /\ result' = "none" /\ diags' = diags
          /\ blocks' = blocks /\ ops' = ops
          /\ valueScopes' = valueScopes
          /\ regionStack' = SetBack(regionStack, [Back EXCEPT !.curRegion = @ + 1])]_vars

\* The empty region of an operation nested in a region with a value slot was
\* read.
C17_Witness ==
    /\ pc = "parseRegions"
    /\ window = Enc(0)
    /\ Len(regionStack) = 3
    /\ Back.curBlock = 0 /\ Back.curRegion = Back.endRegion
    /\ ops[Back.op].regions = <<<<>>>>
    /\ Last(valueScopes).values # <<>>
    /\ Last(valueScopes).nextValueIDs # <<>>

\* In the outcome r of a step the context was asked at most once for each
\* dialect entry, and for none that was not None before the step.
LoadsOnce(r) ==
    LET after == r.dialects
    IN  \A d \in DOMAIN dialects :
            /\ after[d].loads <= 1
            /\ after[d].loads
                   \in {dialects[d].loads, IF dialects[d].dialect = "None" THEN 1 ELSE 0}

\* C18: load() asks the context for a dialect entry at most once in a read,
\* and only while the entry is None; an entry that is no longer None (the
\* dialect, or nullptr for a dialect the context does not know) keeps its
\* value whatever operation names are resolved afterwards.
C18_LoadOnce ==
    [][/\ \A d \in DOMAIN dialects' :
              /\ dialects'[d].loads <= 1
              /\ dialects'[d].loads = 0 <=> dialects'[d].dialect = "None"
       /\ \A d \in DOMAIN dialects :
              (dialects[d].dialect # "None" /\ dialects' # <<>>) =>
                  dialects'[d] = dialects[d]
       /\ (AtOperation /\ result' = "failure") => LoadsOnce(OpAt(window'))]_vars

\* Two operation names of the dialect "u", which the context does not know,
\* were resolved: the entry holds nullptr and the context was asked once.
C18_Witness ==
    /\ pc = "parseRegions"
    /\ Len(opNames) = 3
    /\ <<117, 46, 109>> = opNames[2].opName
    /\ <<117, 46, 98>> = opNames[3].opName
    /\ dialects[2].dialect = "nullptr"
    /\ dialects[2].loads = 1

\* The index (0-based) of the operation name that the bytes w start with.
NameIndexOf(w) == w[1] \div 2

\* C19: the dialect entries are all None when the string section, the
\* dialect section and the attribute/type offset section have been parsed; an
\* entry leaves None only in the parse of an operation whose name it owns
\* and that was not resolved before; an entry none of whose operation names
\* is resolved is None, whatever attributes were resolved.
C19_LazyLoad ==
    [][/\ pc \in {"parseStringSection", "parseDialectSection", "initialize"} =>
              \A d \in DOMAIN dialects' :
                  dialects'[d].dialect = "None" /\ dialects'[d].loads = 0
       /\ \A d \in DOMAIN dialects :
              (/\ dialects[d].dialect = "None"
               /\ dialects' # <<>>
               /\ dialects'[d].dialect # "None") =>
                  /\ AtOperation
                  /\ NameIndexOf(window') < Len(opNames)
                  /\ opNames[NameIndexOf(window') + 1].dialect = d - 1
                  /\ opNames[NameIndexOf(window') + 1].opName = "None"
                  /\ opNames'[NameIndexOf(window') + 1].opName # "None"
       /\ \A d \in DOMAIN dialects' :
              (\A n \in DOMAIN opNames' :
                   opNames'[n].dialect = d - 1 => opNames'[n].opName = "None")
                  => dialects'[d].dialect = "None"]_vars

\* An operation of the dialect "u" was parsed and its location, an attribute
\* grouped under the dialect "b", resolved: "b" and "m" are not loaded.
C19_Witness ==
    /\ pc = "parseRegions"
    /\ Len(ops) >= 1
    /\ attributes[1].entry = "LocationAttr"
    /\ dialects[1].dialect = "None"
    /\ dialects[2].dialect # "None"
    /\ dialects[3].dialect = "None"

\* In the table `after` of a step that started with the table `before`, no
\* entry was read more than once, and no entry that was resolved was read or
\* changed.
ReadOnce(before, after) ==
    \A i \in DOMAIN before :
        /\ after[i].reads <= 1
        /\ before[i].entry # "null" => after[i] = before[i]

\* The outcome r of a step has read each attribute and type entry at most
\* once.
EntriesReadOnce(r) ==
    LET m == r
    IN  /\ ReadOnce(attributes, m.attributes)
        /\ ReadOnce(types, m.types)

\* C20: the bytes of an attribute or type entry are read (and handed to the
\* assembly parser) at most once in a read; an entry that is resolved is
\* neither read again nor changed, and an operation whose location is an
\* entry resolved before has the stored attribute as its location.
C20_ResolveOnce ==
    [][/\ \A i \in DOMAIN attributes' :
              /\ attributes'[i].reads <= 1
              /\ attributes'[i].reads = 0 <=> attributes'[i].entry = "null"
       /\ \A i \in DOMAIN types' :
              /\ types'[i].reads <= 1
              /\ types'[i].reads = 0 <=> types'[i].entry = "null"
       /\ pc' = "parseRegions" =>
              /\ ReadOnce(attributes, attributes')
              /\ ReadOnce(types, types')
       /\ (AtOperation /\ result' = "failure") => EntriesReadOnce(OpAt(window'))
       /\ (AtOperation /\ pc' = "parseRegions") =>
              ops'[Len(ops')].loc = attributes'[window'[3] \div 2 + 1].entry]_vars

\* Two operations with the same location were parsed: the entry was read
\* once.
C20_Witness ==
    /\ pc = "parseRegions"
    /\ Len(ops) >= 2
    /\ ops[1].loc = "LocationAttr" /\ ops[2].loc = "LocationAttr"
    /\ attributes[1].entry = "LocationAttr"
    /\ attributes[1].reads = 1

\* The sizes of the n entries that the offset section lists from the cursor
\* rd on, in the order of the section; `left` entries of the current
\* grouping are still to come.
RECURSIVE EntrySizes(_, _, _)
EntrySizes(rd, left, n) ==
    IF n = 0 THEN <<>>
    ELSE IF left = 0
    THEN EntrySizes(parseVarInt(parseVarInt(rd).rd).rd,
                    ToNat(parseVarInt(parseVarInt(rd).rd).value), n)
    ELSE <<ToNat(parseVarIntWithFlag(rd).value.result)>>
         \o EntrySizes(parseVarIntWithFlag(rd).rd, left - 1, n - 1)

\* The sizes that the offset section w lists for its attributes and types.
SizesOf(w) ==
    EntrySizes(parseVarInt(parseVarInt(Reader(w)).rd).rd, 0,
               ToNat(parseVarInt(Reader(w)).value)
               + ToNat(parseVarInt(parseVarInt(Reader(w)).rd).value))

RECURSIVE SumTo(_, _)
SumTo(q, n) == IF n = 0 THEN 0 ELSE q[n] + SumTo(q, n - 1)

\* The entries (attributes, then types) are the consecutive ranges of the
\* given sizes in sectionData, the first at offset 0.
Contiguous(entries, sizes, sectionData) ==
    /\ Len(entries) = Len(sizes)
    /\ \A j \in DOMAIN entries :
           /\ entries[j].off = SumTo(sizes, j - 1)
           /\ Len(entries[j].data) = sizes[j]
           /\ entries[j].off + sizes[j] <= Len(sectionData)
           /\ entries[j].data = SubSeq(sectionData, entries[j].off + 1,
                                       entries[j].off + sizes[j])
    /\ \A j \in DOMAIN entries : \A k \in DOMAIN entries :
           j < k => entries[j].off + Len(entries[j].data) <= entries[k].off

\* C21: when initialize succeeds, the entries, attributes first and then
\* types, are consecutive ranges of the attribute/type section with the sizes
\* of the offset section in their order: each starts where the one before
\* ends, none ends past the section, no two overlap; the offset section was
\* read to its end.
C21_Contiguous ==
    [][(pc = "initialize" /\ pc' = "parseIRSection") =>
          /\ \E sectionData \in AttrTypeSections :
                 /\ Contiguous(attributes' \o types', SizesOf(window'), sectionData)
                 /\ initialize(dialects, sectionData, window').ok
                 /\ empty(initialize(dialects, sectionData, window').rd)
          /\ Len(attributes') = ToNat(parseVarInt(Reader(window')).value)]_vars

\* The offset section with the sizes 1, 3 and 2 was read.
C21_Witness ==
    /\ pc = "parseIRSection"
    /\ window = AttrTypeOffsetSectionSizes
    /\ Len(attributes) = 3 /\ Len(types) = 1
    /\ attributes[1].off = 0 /\ attributes[1].data = <<76, 0, 68, 0>>
    /\ attributes[2].off = 4 /\ attributes[2].data = <<73, 0, 76, 0, 84, 0, 88, 0>>
    /\ attributes[3].off = 12 /\ attributes[3].data = <<76, 68, 0>>
    /\ types[1].off = 15 /\ types[1].data = <<>>


\* The offset of the first 0 byte of data, Len(data) + 1 if it has none.
NulAt(data) ==
    CHOOSE k \in 1..(Len(data) + 1) :
        /\ k = Len(data) + 1 \/ data[k] = 0
        /\ \A j \in 1..(k - 1) : data[j] # 0

\* The bytes of the entry e up to their first 0 byte are a string that the
\* assembly parser accepts and consumes whole.
ParsesWhole(e, entryType) ==
    /\ NulAt(e.data) <= Len(e.data)
    /\ hostParse(SubSeq(e.data, 1, NulAt(e.data) - 1), entryType).entry # "null"
    /\ hostParse(SubSeq(e.data, 1, NulAt(e.data) - 1), entryType).numRead
           = NulAt(e.data) - 1

\* The entry e has no custom encoding and its bytes are one string that
\* parses whole, with nothing after the terminator.
Resolvable(e, entryType) ==
    /\ ~e.hasCustomEncoding
    /\ ParsesWhole(e, entryType)
    /\ NulAt(e.data) = Len(e.data)

\* The entry e is a string that parses whole, with bytes after its terminator.
LeftOver(e, entryType) ==
    /\ ~e.hasCustomEncoding
    /\ ParsesWhole(e, entryType)
    /\ NulAt(e.data) < Len(e.data)

\* r is the outcome of resolving the unresolved entry e.
ResolvedAs(r, e, entryType) ==
    /\ r.entry # "null" <=> Resolvable(e, entryType)
    /\ r.entry # "null" =>
           /\ r.errs = <<>>
           /\ r.entry = hostParse(SubSeq(e.data, 1, NulAt(e.data) - 1), entryType).entry
    /\ e.hasCustomEncoding =>
           r.errs = <<Err("unexpected " \o entryType \o " encoding", 0, 0)>>
    /\ LeftOver(e, entryType) =>
           r.errs = <<Err("unexpected trailing bytes after " \o entryType \o " entry", 0, 0)>>

\* Every unresolved entry of the table resolves by the rule.
ResolveRule(entries, entryType) ==
    \A i \in DOMAIN entries :
        entries[i].entry = "null" =>
            ResolvedAs(AttrTypeResolveEntry(entries, i - 1, entryType),
                       entries[i], entryType)

\* The step has parsed the bytes w' of an operation named "b.m" whose
\* location is the unresolved attribute e.
LocationResolved(w, e) ==
    /\ pc' = "parseRegions" =>
           /\ Resolvable(e, "Attribute")
           /\ attributes'[w[3] \div 2 + 1].entry # "null"
    /\ e.hasCustomEncoding =>
           FailsWith(Err("unexpected Attribute encoding", 0, 0))
    /\ LeftOver(e, "Attribute") =>
           FailsWith(Err("unexpected trailing bytes after Attribute entry", 0, 0))
    /\ ~Resolvable(e, "Attribute") => result' = "failure" \/ pc' = "undefined"

\* C22: an unresolved attribute or type entry resolves if and only if it has
\* no custom encoding, its bytes hold a null terminator, the assembly parser
\* accepts the string before the terminator and consumes all of it, and
\* the terminator is the last byte of the entry; an entry with a custom
\* encoding fails with "unexpected <Attribute|Type> encoding" and one with
\* bytes after the terminator of a string that parses fails with "unexpected
\* trailing bytes after <Attribute|Type> entry".  An operation whose location
\* is an unresolved attribute parses or fails the read accordingly.
C22_Resolve ==
    [][/\ pc = "parseIRSection" =>
              /\ ResolveRule(attributes, "Attribute")
              /\ ResolveRule(types, "Type")
       /\ (/\ AtOperation
           /\ opNames # <<>>
           /\ Len(window') >= 3 /\ window'[1] = 1
           /\ window'[3] \div 2 < Len(attributes)
           /\ attributes[window'[3] \div 2 + 1].entry = "null") =>
              LocationResolved(window', attributes[window'[3] \div 2 + 1])]_vars

\* The read has failed at an operation whose location is an attribute with
\* bytes after its terminator.
C22_Witness ==
    /\ result = "failure" /\ pc = "done"
    /\ Logged("parseIRSection")
    /\ window = EncodeOp(0, 0, <<>>, <<>>, <<>>, <<>>, <<>>)
    /\ Len(diags) = 1
    /\ LastErr = Err("unexpected trailing bytes after Attribute entry", 0, 0)


\* The size list of the string section w.
StringSizes(w) ==
    SizeList(parseVarInt(Reader(w)).rd, ToNat(parseVarInt(Reader(w)).value))

\* The string section was parsed by this step.
StringSectionRead == pc = "parseStringSection" /\ pc' \notin {"done", "undefined"}

\* In the table strs of the section w the string with index i (from 0) has
\* the size at position Len(sizes) - 1 - i of the list (its length is the
\* size less the terminator, for a size that is not 0), and starts where a
\* cursor that starts at the length of the section is after the sizes at the
\* positions 0 to Len(sizes) - 1 - i were subtracted from it.
ReverseWalk(strs, w, sizes) ==
    /\ Len(strs) = Len(sizes)
    /\ \A i \in DOMAIN strs :
           /\ sizes[Len(sizes) + 1 - i] # 0 =>
                  strs[i].len = sizes[Len(sizes) + 1 - i] - 1
           /\ strs[i].off = Len(w) - SumTo(sizes, Len(sizes) + 1 - i)
    /\ strs # <<>> => strs[Len(strs)].off + sizes[1] = Len(w)

\* In the table strs of the section w the string with index i has the size
\* at position i of the list, and starts where the cursor is after the sizes
\* from the last position down to position i were subtracted from it.
ForwardWalk(strs, w, sizes) ==
    /\ Len(strs) = Len(sizes)
    /\ \A i \in DOMAIN strs :
           /\ sizes[i] # 0 => strs[i].len = sizes[i] - 1
           /\ strs[i].off = Len(w) - (SumTo(sizes, Len(sizes)) - SumTo(sizes, i - 1))
    /\ strs # <<>> => strs[Len(strs)].off + sizes[Len(sizes)] = Len(w)

\* C23 (as the code has it): the size list of the string section is in
\* reverse index order: the size at position i of the list is the size of
\* the string with table index n - 1 - i.  The table is filled from its last
\* index to its first while the sizes are read in list order and subtracted
\* from a cursor that starts at the section length, so that the string
\* whose size is first in the list (the one with the last index) ends at
\* the end of the section.
C23_ReverseOrder ==
    [][StringSectionRead =>
           ReverseWalk(strings', window', StringSizes(window'))]_vars

\* C23 (as stated): the size list is in forward index order and the string
\* whose size is last in the list ends at the end of the section.
C23_ForwardOrder ==
    [][StringSectionRead =>
           ForwardWalk(strings', window', StringSizes(window'))]_vars

\* The section with the size list 2, 3 was read: the string with the last
\* index has the first size of the list and ends at the end of the section.
C23_Witness ==
    /\ pc = "parseDialectSection"
    /\ window = StringSectionTwoSizes
    /\ StringSizes(window) = <<2, 3>>
    /\ Len(strings) = 2
    /\ strings[2].len + 1 = 2 /\ strings[2].off + 2 = Len(window)
    /\ strings[1].len + 1 = 3


\* The entry str of the table of the section w is the declared range of
\* stringSize bytes without its last byte, and lies in the string data, which
\* starts at offset start.
SliceOf(str, w, stringSize, start) ==
    /\ str.len = stringSize - 1
    /\ start <= str.off
    /\ str.off + str.len < Len(w)
    /\ str.str = SubSeq(w, str.off + 1, str.off + stringSize - 1)

\* The table strs of the section w: every entry is the slice of its declared
\* size, and the declared sizes sum to the number of bytes after the size
\* list.
SlicesInside(strs, w) ==
    /\ \A i \in DOMAIN strs :
           SliceOf(strs[i], w, StringSizes(w)[Len(strs) + 1 - i],
                   DataStart(parseVarInt(Reader(w)).rd, Len(strs)))
    /\ SumTo(StringSizes(w), Len(strs))
           = Len(w) - DataStart(parseVarInt(Reader(w)).rd, Len(strs))

\* The string sections that declare no size of 0 give such a table.
NonZeroSizesInside ==
    [][(StringSectionRead /\ \A i \in DOMAIN strings' : StringSizes(window')[i] # 0) =>
           SlicesInside(strings', window')]_vars

\* C24: after the string section is parsed successfully every string table
\* entry is a slice inside the section payload of length (declared size - 1)
\* that leaves out the last byte of its declared range, whatever the
\* declared size is (0 included), and the declared sizes sum to the number
\* of bytes that follow the size list.
C24_SlicesInside ==
    [][StringSectionRead => SlicesInside(strings', window')]_vars


\* parseRegions is at the end of a block that is not the last of its region.
AtNextBlock ==
    /\ pc = "parseRegions" /\ regionStack # <<>>
    /\ Back.curRegion # Back.endRegion
    /\ Back.curBlock # 0
    /\ Back.numOpsRemaining = 0
    /\ Back.curBlock < Len(CurRegion(ops, Back))

\* The block header w has its has_args flag set and declares k arguments.
HasArgs(w, k) == Len(w) >= 2 /\ (w[1] \div 2) % 2 = 1 /\ w[2] \div 2 = k

\* The step has defined the k arguments of the block blk as the next k
\* values of the scope that was on top of the stack.
ArgsDefined(k, blk) ==
    /\ valueScopes # <<>>
    /\ Len(valueScopes') = Len(valueScopes)
    /\ Last(Last(valueScopes').nextValueIDs) = Last(Last(valueScopes).nextValueIDs) + k
    /\ \A j \in 1..k :
           Last(valueScopes').values[Last(Last(valueScopes).nextValueIDs) + j]
               = ArgValue(blk, j)

\* The header of a block that follows another in its region, when it has
\* has_args set and the read goes on, defines its arguments as the next
\* values of the scope on top of the stack.
NestedArgsDefined ==
    [][\A k \in 0..1 :
           (AtNextBlock /\ HasArgs(window', k) /\ pc' = "parseRegions") =>
               ArgsDefined(k, CurRegion(ops, Back)[Back.curBlock + 1])]_vars

\* C25: the initial value scope is pushed before the header of the module
\* body's block is parsed, so a value scope is on the stack whenever a block
\* header is parsed: a header with has_args set, of the top-level block or
\* of a block of a region, whose arguments parse does not run without a
\* scope and defines the arguments as the next values of the current scope.
C25_ScopeAtHeader ==
    [][\A k \in 0..1 :
           /\ (AtNextBlock /\ HasArgs(window', k)) => pc' # "undefined"
           /\ (pc = "parseIRSection" /\ HasArgs(window', k)) =>
                  /\ pc' # "undefined"
                  /\ pc' = "parseRegions" =>
                         Last(Last(valueScopes').nextValueIDs) = k]_vars


\* The number of frames of the region stack whose operation is isolated from
\* above.
RECURSIVE IsolatedFrames(_)
IsolatedFrames(stack) ==
    IF stack = <<>> THEN 0
    ELSE IsolatedFrames(Front(stack))
         + (IF Last(stack).isIsolatedFromAbove THEN 1 ELSE 0)

\* C26: at every iteration of the loop over the region stack there are as
\* many value scopes as frames of an operation that is isolated from above
\* (the frame of the temporary module is one): a scope is pushed with the
\* frame of an isolated operation that has regions and popped with it, and
\* with no other frame.
C26_ScopePerIsolatedFrame ==
    [][/\ pc' = "parseRegions" => Len(valueScopes') = IsolatedFrames(regionStack')
       /\ (pc = "parseRegions" /\ pc' = "parseRegions") =>
              /\ Len(regionStack') = Len(regionStack) + 1 =>
                     /\ AtOperation
                     /\ ops'[Last(regionStack').op].regions # <<>>
                     /\ Front(regionStack') = SetBack(regionStack, InLoop)
                     /\ valueScopes' = IF Last(regionStack').isIsolatedFromAbove
                                       THEN Append(valueScopes, ValueScope)
                                       ELSE valueScopes
              /\ Len(regionStack') = Len(regionStack) - 1 =>
                     /\ regionStack' = Front(regionStack)
                     /\ valueScopes' = IF Back.isIsolatedFromAbove
                                       THEN Front(valueScopes)
                                       ELSE valueScopes
              /\ Len(regionStack') = Len(regionStack) =>
                     Len(valueScopes') = Len(valueScopes)]_vars

\* The loop is at the regions of an isolated operation that is nested in an
\* operation that is not: three frames, two value scopes.
C26_Witness ==
    /\ pc = "parseRegions"
    /\ Len(regionStack) = 3
    /\ ~regionStack[2].isIsolatedFromAbove
    /\ regionStack[3].isIsolatedFromAbove
    /\ Len(valueScopes) = 2


\* parseRegions is at the end of the last block of a region.
AtEndOfRegion ==
    /\ pc = "parseRegions" /\ regionStack # <<>>
    /\ Back.curRegion # Back.endRegion
    /\ Back.curBlock # 0
    /\ Back.numOpsRemaining = 0
    /\ Back.curBlock = Len(CurRegion(ops, Back))

\* The value scopes `after` keep what the scopes `before` hold below their
\* top region: a scope that is not the top one in both is the same in size,
\* and the next-value ids below the last one of a scope are not touched.
BelowTopKept(before, after) ==
    \A s \in DOMAIN before \cap DOMAIN after :
        /\ \A j \in (DOMAIN before[s].nextValueIDs \cap DOMAIN after[s].nextValueIDs) :
               (j < Len(before[s].nextValueIDs) \/ j < Len(after[s].nextValueIDs)) =>
                   after[s].nextValueIDs[j] = before[s].nextValueIDs[j]
        /\ (s < Len(before) /\ s < Len(after)) =>
               /\ Len(after[s].values) = Len(before[s].values)
               /\ after[s].nextValueIDs = before[s].nextValueIDs

\* The header of a region with blocks was parsed by this step: the region
\* was pushed on the top scope, which grew by its numValues.
RegionPushed ==
    /\ Len(valueScopes') = Len(valueScopes)
    /\ Len(Last(valueScopes').values)
           = Len(Last(valueScopes).values) + regionStack'[Len(regionStack')].numValues
    /\ Front(Last(valueScopes').nextValueIDs) = Last(valueScopes).nextValueIDs
    /\ Last(Last(valueScopes').nextValueIDs) >= Len(Last(valueScopes).values)

\* The region was popped off the top scope by this step, which shrank by its
\* numValues to where the values of the region started.
RegionPopped ==
    /\ Len(valueScopes') = Len(valueScopes)
    /\ Len(Last(valueScopes').values)
           = Len(Last(valueScopes).values) - Back.numValues
    /\ Last(valueScopes').nextValueIDs = Front(Last(valueScopes).nextValueIDs)
    /\ Len(Last(valueScopes').values) <= Last(Last(valueScopes).nextValueIDs)
    /\ Last(Last(valueScopes).nextValueIDs) <= Len(Last(valueScopes).values)

\* C27: a region with blocks is pushed on the current value scope when its
\* header is parsed (the values grow by its numValues, a next-value id is
\* added at the old length) and popped when its last block ends (the values
\* shrink by the same numValues, the id is removed); no step in between
\* changes the size of the values or the ids below, whatever regions of
\* operations that are not isolated are parsed and popped meanwhile, so the
\* scope is then back to the length and the ids it had before the header.
C27_ScopeRestored ==
    [][(pc = "parseRegions" /\ pc' = "parseRegions") =>
          /\ BelowTopKept(valueScopes, valueScopes')
          /\ (AtRegion /\ regionStack'[Len(regionStack')].curBlock # 0) => RegionPushed
          /\ AtEndOfRegion => RegionPopped
          /\ (~AtEndOfRegion /\ ~(AtRegion /\ regionStack'[Len(regionStack')].curBlock # 0)
              /\ Len(valueScopes') = Len(valueScopes)) =>
                 /\ Len(Last(valueScopes').values) = Len(Last(valueScopes).values)
                 /\ Len(Last(valueScopes').nextValueIDs)
                        = Len(Last(valueScopes).nextValueIDs)]_vars

\* The region of operation 1, with one value, has been parsed to its end
\* with the region of operation 2 parsed inside it; none is isolated, and
\* the scope of the module is as it was before the region's header.
C27_Witness ==
    /\ pc = "parseRegions"
    /\ Len(ops) = 3
    /\ ops[1].regions # <<>> /\ ops[2].regions # <<>>
    /\ Len(regionStack) = 2
    /\ Back.op = 1 /\ ~Back.isIsolatedFromAbove
    /\ Back.curBlock = 0 /\ Back.curRegion = Back.endRegion
    /\ Back.numValues = 1
    /\ Len(valueScopes) = 1
    /\ valueScopes[1].values = <<>> /\ valueScopes[1].nextValueIDs = <<0>>


\* The most values that one call defines in the checks below.
MaxDefined == 2

\* k values that no slot holds.
FreshValues(k) == [j \in 1..k |-> ArgValue(0, j)]

\* The next value id of the region on top of the scopes.
NextID(scopes) == Last(Last(scopes).nextValueIDs)

\* The scopes `after` are the scopes `before` with newValues written to the
\* slots from the next value id on, the id advanced by their number, and
\* nothing else changed.
Written(before, after, newValues) ==
    /\ Len(after) = Len(before)
    /\ Front(after) = Front(before)
    /\ Len(Last(after).values) = Len(Last(before).values)
    /\ \A i \in DOMAIN Last(before).values :
           Last(after).values[i]
               = IF i > NextID(before) /\ i <= NextID(before) + Len(newValues)
                 THEN newValues[i - NextID(before)]
                 ELSE Last(before).values[i]
    /\ Front(Last(after).nextValueIDs) = Front(Last(before).nextValueIDs)
    /\ NextID(after) = NextID(before) + Len(newValues)

\* defineValues of newValues, from the current state: the error and no slot
\* written when the range passes the slots of the scope, the slots written
\* otherwise.
DefinedInRange(r, newValues) ==
    IF NextID(valueScopes) + Len(newValues) > Len(Last(valueScopes).values)
    THEN /\ ~r.ok /\ ~r.ub
         /\ r.errs = <<Err("value index range was outside of the expected range for the parent region",
                           NextID(valueScopes), NextID(valueScopes) + Len(newValues))>>
         /\ r.valueScopes = valueScopes
    ELSE /\ r.ok
         /\ r.errs = <<>>
         /\ Written(valueScopes, r.valueScopes, newValues)

\* The block header w', with k arguments of type 0 and location 0, was parsed
\* by this step for the block blk.
ArgsInRange(k, blk) ==
    IF NextID(valueScopes) + k > Len(Last(valueScopes).values)
    THEN /\ pc' # "parseRegions"
         /\ (types[1].entry = "Type" /\ attributes[1].entry = "LocationAttr") =>
                FailsWith(Err("value index range was outside of the expected range for the parent region",
                              NextID(valueScopes), NextID(valueScopes) + k))
    ELSE pc' = "parseRegions" =>
             Written(valueScopes, valueScopes', [j \in 1..k |-> ArgValue(blk, j)])

\* C28: defining k values fails with "value index range was outside of the
\* expected range for the parent region" whenever the next value id plus k
\* exceeds the number of slots of the current scope, and then no slot is
\* written; otherwise exactly the slots from the next id on are written and
\* the id advances by k.  The slots of the scope end with those of the
\* region being parsed, so a region defines no more values than its
\* numValues.
C28_DefineInRange ==
    [][/\ (pc = "parseRegions" /\ valueScopes # <<>>
           /\ Last(valueScopes).nextValueIDs # <<>>) =>
              /\ \A k \in 0..MaxDefined :
                     DefinedInRange(defineValues(Machine(<<>>), FreshValues(k)),
                                    FreshValues(k))
              /\ NextID(valueScopes) <= Len(Last(valueScopes).values)
              /\ Back.curBlock # 0 =>
                     Len(Last(valueScopes).values) - Back.numValues
                         <= NextID(valueScopes)
       /\ \A k \in 0..1 :
              (AtNextBlock /\ HasArgs(window', k)
               /\ window' = EncodeBlock(0, TRUE, [j \in 1..k |-> <<0, 0>>])) =>
                  ArgsInRange(k, CurRegion(ops, Back)[Back.curBlock + 1])]_vars

\* The header of the second block of a region with one value, whose first
\* block has defined it, declares an argument: the read has failed.
C28_Witness ==
    /\ pc = "done" /\ result = "failure"
    /\ window = EncodeBlock(0, TRUE, <<<<0, 0>>>>)
    /\ LastErr = Err("value index range was outside of the expected range for the parent region", 1, 2)


\* The elements of the sequence q.
Range(q) == {q[i] : i \in DOMAIN q}

\* The n forward reference operations are each in exactly one of the lists
\* `active` (forwardRefOps) and `free` (openForwardRefOps).
InOneList(n, active, free) ==
    /\ Range(active) \cup Range(free) = 1..n
    /\ Range(active) \cap Range(free) = {}
    /\ Cardinality(Range(active)) = Len(active)
    /\ Cardinality(Range(free)) = Len(free)

\* r is the machine after createForwardRef called in the current state: a
\* new operation when none is free, the last free one otherwise.
ForwardRefTaken(r) ==
    IF openForwardRefOps = <<>>
    THEN /\ r.placeholders = placeholders + 1
         /\ r.forwardRefOps = Append(forwardRefOps, placeholders + 1)
         /\ r.openForwardRefOps = <<>>
         /\ r.val = ForwardRefValue(placeholders + 1)
    ELSE /\ r.placeholders = placeholders
         /\ r.forwardRefOps = Append(forwardRefOps, Last(openForwardRefOps))
         /\ r.openForwardRefOps = Front(openForwardRefOps)
         /\ r.val = ForwardRefValue(Last(openForwardRefOps))

HasOperand(w, idx) ==
    /\ Len(w) >= 5
    /\ w[1] = 1 /\ w[3] = 1
    /\ \/ w[2] \in {kHasOperands, kHasOperands + kHasSuccessors,
                    kHasOperands + kHasInlineRegions}
          /\ w[4] = 3 /\ w[5] = 2 * idx + 1
       \/ w[2] = kHasResults + kHasOperands
          /\ Len(w) >= 7 /\ w[4] = 3 /\ w[5] = 1
          /\ w[6] = 3 /\ w[7] = 2 * idx + 1

\* The name "b.m", the location 0 and the type 0 resolve in the tables.
TablesResolve ==
    /\ opNames # <<>>
    /\ attributes # <<>> /\ attributes[1].data = <<76, 0>>
    /\ ~attributes[1].hasCustomEncoding
    /\ types # <<>> /\ types[1].data = <<84, 0>>
    /\ ~types[1].hasCustomEncoding

\* The operand v, parsed for the index idx with the value scopes
\* `before` and leaving the scopes `after` (those of `before`, by position),
\* is what the slot idx of the scope that was on top holds, and no scope
\* below the top was read or written.
InTopScope(v, idx, before, after) ==
    /\ v # NullValue
    /\ v = after[Len(before)].values[idx + 1]
    /\ Last(before).values[idx + 1][1] \in {"result", "arg"} =>
           v = Last(before).values[idx + 1]
    /\ \A s \in 1..(Len(before) - 1) :
           /\ after[s] = before[s]
           /\ \A j \in DOMAIN before[s].values : before[s].values[j] # v

\* An operation with the operand 0 and an isolated region.
IsolatedWithOperand ==
    EncodeOp(0, 0, <<>>, <<>>, <<<<0>>>>, <<>>, <<<<1, TRUE>>>>)

\* r is the outcome of parseOpWithoutRegions for IsolatedWithOperand in the
\* current state: the operand is resolved in the current top scope, and no
\* scope is pushed by then.
IsolatedResolvedOutside(r) ==
    IF Last(valueScopes).values = <<>>
    THEN ~r.ok /\ r.errs = <<Err("invalid value index: ", 0, 0)>>
    ELSE /\ r.ok
         /\ r.val.isIsolatedFromAbove
         /\ Len(r.valueScopes) = Len(valueScopes)
         /\ InTopScope(r.ops[r.val.op].operands[1], 0, valueScopes, r.valueScopes)

\* C30: an operand is an index into the values of the top value scope.  An
\* index that is not below the number of slots of that scope fails with
\* "invalid value index"; otherwise the operand is the value of the slot (a
\* forward reference put there if it was empty), never a value of a scope
\* below, which an operation inside an isolated region leaves untouched.
\* The operands of an isolated operation are resolved by
\* parseOpWithoutRegions, in the scope the operation is in, before its own
\* scope is pushed.
C30_TopScopeOperand ==
    [][(AtOperation /\ TablesResolve) =>
          /\ \A idx \in {0, 5} :
                 HasOperand(window', idx) =>
                     IF idx >= Len(Last(valueScopes).values)
                     THEN FailsWith(Err("invalid value index: ", idx, 0))
                     ELSE pc' = "parseRegions" =>
                              InTopScope(ops'[Len(ops')].operands[1], idx,
                                         valueScopes, valueScopes')
          /\ IsolatedResolvedOutside(OpAt(IsolatedWithOperand))]_vars

\* An operation inside an isolated region has the operand 0 while the slot 0
\* of the enclosing scope holds a block argument: the operand is the value
\* of the slot 0 of the scope of the isolated region.
C30_Witness ==
    /\ pc = "parseRegions"
    /\ Len(valueScopes) = 2
    /\ valueScopes[1].values # <<>> /\ valueScopes[1].values[1][1] = "arg"
    /\ Len(ops) = 3
    /\ HasOperand(window, 0)
    /\ ops[3].operands[1] = valueScopes[2].values[1]
    /\ ops[3].operands[1][1] # "arg"


\* The sequence q is strictly increasing.
Increasing(q) == \A i, j \in DOMAIN q : i < j => q[i] < q[j]

\* The first id that a step from the scope `old` to the scope `new` gives to
\* a value: the number of slots of `old` when the step has pushed a region
\* on the scope, the next id of the top region otherwise.
FirstID(old, new) ==
    IF Len(new.nextValueIDs) > Len(old.nextValueIDs) THEN Len(old.values)
    ELSE IF old.nextValueIDs = <<>> THEN 0
    ELSE Last(old.nextValueIDs)

\* The step from the scope `old` to the scope `new` has defined `kind`
\* values ("arg" or "result") at consecutive ids from FirstID on, and left
\* the next id of the region after them.
DefinedInOrder(old, new, kind) ==
    /\ Len(new.defined) >= Len(old.defined)
    /\ SubSeq(new.defined, 1, Len(old.defined)) = old.defined
    /\ \A j \in 1..(Len(new.defined) - Len(old.defined)) :
           /\ new.defined[Len(old.defined) + j] = FirstID(old, new) + j - 1
           /\ new.values[FirstID(old, new) + j][1] = kind
    /\ Len(new.defined) > Len(old.defined) =>
           Last(new.nextValueIDs)
               = FirstID(old, new) + Len(new.defined) - Len(old.defined)

\* C31 (as the code has it): within one region the value ids are assigned
\* in the order of the definitions, consecutively from the number of slots
\* that the scope had when the header of the region was parsed; the
\* arguments of a block are defined by its header, before the results of
\* its operations.  The ids of a nested region lie above all the slots of
\* the regions around it and are given up when it ends, so a value that the
\* enclosing region defines afterwards has a smaller id than the values of
\* the nested region, and a sibling region uses the same ids again.
C31_RegionOrder ==
    [][(pc = "parseRegions" /\ pc' = "parseRegions"
        /\ Len(valueScopes') >= Len(valueScopes)) =>
           DefinedInOrder(Last(valueScopes), valueScopes'[Len(valueScopes)],
                          IF AtOperation THEN "result" ELSE "arg")]_vars

\* C31 (as stated): in every value scope the ids are in the order of the
\* definitions: a value defined after another in the same scope has the
\* larger id.
C31_ScopeOrder == \A s \in DOMAIN valueScopes : Increasing(valueScopes[s].defined)

\* The result of an operation in a nested region was given the id 1, and
\* then the argument of the second block of the enclosing region the id 0,
\* in the scope of the module.
C31_Witness ==
    /\ pc = "parseRegions"
    /\ Len(valueScopes) = 1
    /\ valueScopes[1].defined = <<1, 0>>
    /\ valueScopes[1].values[1][1] = "arg"
    /\ Len(ops) = 3 /\ ops[3].types # <<>>


\* The block that the frame readState is in.
BlockOf(opTable, readState) == CurRegion(opTable, readState)[readState.curBlock]

\* The step has parsed an operation: it is the next operation of the block
\* of the top frame, whose count of operations to come is one less; the new
\* frame, if the operation has regions, is on top of that frame.
OperationCounted ==
    /\ Len(ops') = Len(ops) + 1
    /\ blocks'[BlockOf(ops, Back)].operations
           = Append(blocks[BlockOf(ops, Back)].operations, Len(ops'))
    /\ \A b \in DOMAIN blocks :
           b # BlockOf(ops, Back) => blocks'[b].operations = blocks[b].operations
    /\ regionStack'[Len(regionStack)]
           = [Back EXCEPT !.numOpsRemaining = Back.numOpsRemaining - 1]
    /\ Len(regionStack') = Len(regionStack) + (IF ops'[Len(ops')].regions # <<>> THEN 1 ELSE 0)

\* The step leaves the frames below the top one as they are, and creates no
\* operation unless it parses one for the block of the top frame.
BelowTopWaits ==
    /\ \A i \in 1..(Len(regionStack) - 1) :
           i <= Len(regionStack') => regionStack'[i] = regionStack[i]
    /\ Len(regionStack') < Len(regionStack) => regionStack' = Front(regionStack)
    /\ ~AtOperation =>
           /\ Len(ops') = Len(ops)
           /\ \A b \in DOMAIN blocks : blocks'[b].operations = blocks[b].operations

\* The step that leaves a block, for the next one or for the end of the
\* region, starts with no operation of the block to come; the header of the
\* next block gives the count of its operations.
BlockComplete ==
    /\ (Len(regionStack') = Len(regionStack)
        /\ Back.curBlock # 0
        /\ regionStack'[Len(regionStack')].curBlock # Back.curBlock) =>
           Back.numOpsRemaining = 0
    /\ (AtNextBlock /\ window' # <<>>) =>
           /\ regionStack'[Len(regionStack')].curBlock = Back.curBlock + 1
           /\ regionStack'[Len(regionStack')].numOpsRemaining = window'[1] \div 4
           /\ blocks'[BlockOf(ops', regionStack'[Len(regionStack')])].operations = <<>>

\* C32: an operation that is parsed is the next one of the block of the top
\* frame, and when it has regions its frame is pushed above: the frames
\* below wait unchanged, and no operation is added to their blocks, until
\* the frame is popped, when the parent goes on in the same block with the
\* count of operations that was left.  A block is left only when that count
\* is 0, so a block holds the operations that its header declares, in the
\* order of the encoding.
C32_RegionsBeforeNextOp ==
    [][(pc = "parseRegions" /\ pc' = "parseRegions") =>
          /\ AtOperation => OperationCounted
          /\ BelowTopWaits
          /\ BlockComplete]_vars

\* The top-level block declares two operations; the first has a region with
\* one operation, which was parsed before the second: the read has
\* succeeded with the operations 1 and 3 in the block.
C32_Witness ==
    /\ pc = "done" /\ result = "success"
    /\ Len(ops) = 3
    /\ ops[1].regions # <<>> /\ ops[1].regions[1] # <<>>
    /\ blocks[ops[1].regions[1][1]].operations = <<2>>
    /\ block = <<ParsedOp(1), ParsedOp(3)>>


-----------------------------------------------------------------------------
\* Successors

\* An operation "b.m" at location 0 with the one successor idx.
SuccessorOp(idx) == EncodeOp(0, 0, <<>>, <<>>, <<>>, <<<<idx>>>>, <<>>)

\* w starts with an operation "b.m" at location 0 whose first successor is
\* idx (after the operand, if it has one).
HasSuccessor(w, idx) ==
    /\ Len(w) >= 5
    /\ w[1] = 1 /\ w[3] = 1
    /\ \/ w[2] = kHasSuccessors
          /\ w[4] = 3 /\ w[5] = 2 * idx + 1
       \/ w[2] = kHasOperands + kHasSuccessors
          /\ Len(w) >= 7 /\ w[4] = 3 /\ w[6] = 3 /\ w[7] = 2 * idx + 1

\* r is the outcome of parseOpWithoutRegions for SuccessorOp(idx) in the
\* current state: the successor is the block idx of the region of the top
\* frame, in the order in which parseRegion created the blocks, whether the
\* header of that block was parsed or not; an index that is not below the
\* number of blocks fails.
SuccessorResolved(r, idx) ==
    IF idx >= Len(CurRegion(ops, Back))
    THEN ~r.ok /\ r.errs = <<Err("invalid successor index: ", idx, 0)>>
    ELSE /\ r.ok
         /\ r.ops[Len(r.ops)].successors = <<CurRegion(ops, Back)[idx + 1]>>

\* The largest successor index that is applied.
MaxSuccessor == 3

\* C33: a successor is an index into the blocks of the region that contains
\* the operation, in creation order.  All the blocks of the region exist
\* from its header on, so that an index of a block whose own header is still
\* to come resolves; an index that is not below the number of blocks of the
\* region fails with "invalid successor index".
C33_Successor ==
    [][(AtOperation /\ TablesResolve) =>
          /\ \A idx \in 0..MaxSuccessor :
                 HasSuccessor(window', idx) =>
                     IF idx >= Len(CurRegion(ops, Back))
                     THEN FailsWith(Err("invalid successor index: ", idx, 0))
                     ELSE pc' = "parseRegions" =>
                              ops'[Len(ops')].successors
                                  = <<CurRegion(ops, Back)[idx + 1]>>
          /\ (\E bad \in 1..MaxSuccessor : HasSuccessor(window', bad)) =>
                 \A idx \in 0..MaxSuccessor :
                     SuccessorResolved(OpAt(SuccessorOp(idx)), idx)]_vars

\* An operation of the first block of a region of two blocks was parsed with
\* that block as its successor, and the second block, whose header is still
\* to come, resolves as the successor 1 of the next operation.
C33_Witness ==
    /\ pc = "parseRegions" /\ regionStack # <<>>
    /\ Back.curRegion # Back.endRegion
    /\ Len(CurRegion(ops, Back)) = 2 /\ Back.curBlock = 1
    /\ ops # <<>>
    /\ ops[Len(ops)].successors = <<CurRegion(ops, Back)[1]>>
    /\ Len(blocks[CurRegion(ops, Back)[1]].operations) = 1
    /\ blocks[CurRegion(ops, Back)[2]].operations = <<>>
    /\ OpAt(SuccessorOp(1)).ok
    /\ OpAt(SuccessorOp(1)).ops[Len(ops) + 1].successors
           = <<CurRegion(ops, Back)[2]>>


-----------------------------------------------------------------------------
\* Termination of the loop of parseIRSection

\* The loop of parseIRSection is running.
InMainLoop == pc = "parseRegions" /\ regionStack # <<>>

\* A step of parseRegions on the top frame: the call returns failure (or
\* goes through undefined behaviour), or the step has consumed the bytes of
\* a window, or it has popped the frame, or it has closed a region of the
\* frame and the same call goes on with the next region.  The call returns
\* success when the stack has changed: by the pop, or by the push of a frame
\* for an operation whose bytes were consumed.
Progress ==
    \/ pc' # "parseRegions" /\ result' \in {"failure", "crash"}
    \/ pc' = "parseRegions" /\ window' # <<>> /\ Len(regionStack') >= Len(regionStack)
    \/ pc' = "parseRegions" /\ regionStack' = Front(regionStack)
    \/ /\ pc' = "parseRegions" /\ window' = <<>>
       /\ Len(regionStack') = Len(regionStack)
       /\ regionStack'[Len(regionStack)].curRegion = Back.curRegion + 1
       /\ regionStack'[Len(regionStack)].curBlock = 0
       /\ Back.curBlock # 0

\* C34: the loop of parseIRSection terminates.  Every step of parseRegions on
\* the top frame returns failure, consumes at least one byte, pops the frame
\* or moves the frame to its next region (within the same call), and from
\* every state of the loop the read comes to the end of the loop, with the
\* region stack empty, or to a failure.
C34_Terminates ==
    /\ [][InMainLoop => Progress]_vars
    /\ InMainLoop ~> (\/ pc = "parseRegions" /\ regionStack = <<>>
                      \/ result \in {"failure", "crash"})

\* The loop has ended with the stack empty after three operations, one of
\* them with a region, were parsed and the frames popped.
C34_Witness ==
    /\ pc = "parseRegions" /\ regionStack = <<>>
    /\ result = "none" /\ window = <<>>
    /\ Len(ops) = 3
    /\ \E o \in DOMAIN ops : ops[o].regions # <<>> /\ ops[o].regions[1] # <<>>


-----------------------------------------------------------------------------
\* The cursor stays inside its buffer

\* The step was a successful parseNullTerminatedString: the cursor is just
\* past the first null character at or after its old position.
PastFirstNul ==
    /\ reader'.pos > reader.pos
    /\ reader.data[reader'.pos] = 0
    /\ \A i \in (reader.pos + 1)..(reader'.pos - 1) : reader.data[i] # 0

\* C35: whatever primitive is applied to the cursor (parseByte, parseBytes,
\* skipBytes, parseNullTerminatedString, parseVarInt, parseVarIntWithFlag,
\* parseSection), and whether it succeeds or fails, the cursor is not behind
\* where it was and not beyond the end of the buffer, which is unchanged; a
\* successful parseNullTerminatedString leaves it just past the first null
\* character.
C35_CursorInside ==
    [][/\ reader'.data = reader.data
       /\ reader.pos <= reader'.pos
       /\ reader'.pos <= Len(reader'.data)
       /\ (last'.op = "parseNullTerminatedString" /\ last'.ok) => PastFirstNul
       /\ ~last'.ok => last'.err # NoErr]_vars

\* parseNullTerminatedString was applied at the start of a buffer with two
\* null characters and has left the cursor past the first of them, and
\* before the second.
C35_Witness ==
    /\ last.op = "parseNullTerminatedString" /\ last.ok /\ last.before = 0
    /\ reader.data = <<1, 0, 0>>
    /\ reader.pos = 2


-----------------------------------------------------------------------------
\* Bytes of a section that no handler reads

\* The entries are ranges of an attribute/type section that they cover to
\* its last byte.
Covered(entries) ==
    \E sectionData \in AttrTypeSections :
        /\ \A j \in DOMAIN entries :
               /\ entries[j].off + Len(entries[j].data) <= Len(sectionData)
               /\ entries[j].data
                      = SubSeq(sectionData, entries[j].off + 1,
                               entries[j].off + Len(entries[j].data))
        /\ SumTo([j \in DOMAIN entries |-> Len(entries[j].data)], Len(entries))
               = Len(sectionData)

\* C36: a read succeeds only if the IR section was read to its last byte and
\* the entries of the attribute/type reader cover the attribute/type section
\* to its last byte.
C36_SectionsConsumed ==
    [][(pc = "parseRegions" /\ result' = "success") =>
          /\ window' = <<>>
          /\ Covered(attributes \o types)]_vars


-----------------------------------------------------------------------------
\* Entries written outside the tables of the attribute/type reader

\* C37: initialize writes no entry at an index that is not below the size of
\* its table: it goes through no access outside attributes or types, and an
\* offset section with a grouping of more entries than the table has left is
\* rejected with a diagnostic.
C37_EntriesInsideTable ==
    [][pc = "initialize" =>
          /\ pc' # "undefined"
          /\ window' = AttrTypeOffsetSectionOverrun =>
                 result' = "failure" /\ Len(diags') = Len(diags) + 1]_vars


-----------------------------------------------------------------------------
\* The value scope of the top-level block

\* An operation "b.m" at location 0 with k results of the type 0.
ResultsOp(k) == EncodeOp(0, 0, <<>>, <<[j \in 1..k |-> 0]>>, <<>>, <<>>, <<>>)

\* The next operation is one of the top-level block.
AtTopLevelOperation == AtOperation /\ Len(regionStack) = 1

\* r is the outcome of parseOpWithoutRegions for ResultsOp(k) at the top
\* level.
TopLevelResultsFail(r, k) ==
    /\ ~r.ok /\ ~r.ub
    /\ r.errs = <<Err("value index range was outside of the expected range for the parent region",
                      0, k)>>

\* C38: the value scope of the top-level block has no slot.  An operation of
\* the top-level block with results fails with "value index range was
\* outside of the expected range", and an operand of such an operation,
\* which is parsed before the results are defined, fails with "invalid value
\* index".
C38_TopLevelScope ==
    [][(AtTopLevelOperation /\ TablesResolve) =>
          /\ Len(valueScopes) = 1
          /\ Last(valueScopes).values = <<>>
          /\ Last(valueScopes).nextValueIDs = <<0>>
          /\ \A idx \in {0, 5} :
                 HasOperand(window', idx) =>
                     FailsWith(Err("invalid value index: ", idx, 0))
          /\ window' = ResultsOp(1) =>
                 /\ FailsWith(Err("value index range was outside of the expected range for the parent region",
                                  0, 1))
                 /\ \A k \in 1..MaxDefined :
                        TopLevelResultsFail(OpAt(ResultsOp(k)), k)]_vars

\* The second operation of the top-level block is to be parsed, after an
\* operation with a region, with an operation in it, was parsed and its
\* frame popped: an operation with one result fails there, and so does one
\* with an operand.
C38_Witness ==
    /\ AtTopLevelOperation /\ TablesResolve
    /\ Len(ops) = 2 /\ ops[1].regions # <<>> /\ ops[1].regions[1] # <<>>
    /\ ops[2].operands # <<>>
    /\ TopLevelResultsFail(OpAt(ResultsOp(1)), 1)
    /\ ~OpAt(EncodeOp(0, 0, <<>>, <<>>, <<<<0>>>>, <<>>, <<>>)).ok


-----------------------------------------------------------------------------
\* A slot is defined once

\* The value v is empty or the result of a forward reference operation of
\* the list `active`.
Definable(v, active) ==
    \/ v = NullValue
    \/ v[1] = "forward" /\ v[2] \in Range(active)

\* The slots of the top scope that defineValues writes next hold nothing or
\* the result of an operation of forwardRefOps: the assertion of
\* defineValues holds there.
SlotsAhead ==
    (valueScopes # <<>> /\ Last(valueScopes).nextValueIDs # <<>>) =>
        \A i \in (NextID(valueScopes) + 1)..Len(Last(valueScopes).values) :
            Definable(Last(valueScopes).values[i], forwardRefOps)

\* The slots of the scope `before` that are still there in `after`: one that
\* held a block argument or a result holds it still, and one that has
\* changed was definable.
DefinedOnce(before, after) ==
    \A i \in DOMAIN before.values \cap DOMAIN after.values :
        /\ before.values[i][1] \in {"arg", "result"} =>
               after.values[i] = before.values[i]
        /\ after.values[i] # before.values[i] =>
               Definable(before.values[i], forwardRefOps)

\* C39: a slot is defined at most once while its region is open.  A step of
\* the loop of parseIRSection does not break the assertion of defineValues;
\* a slot that defineValues may write next is empty or holds the result of a
\* forward reference operation of forwardRefOps (not of openForwardRefOps);
\* a slot that holds a block argument or a result keeps it until its region
\* is popped.
C39_DefinedOnce ==
    [][pc = "parseRegions" =>
          /\ pc' # "undefined"
          /\ SlotsAhead
          /\ (pc' = "parseRegions" /\ Len(valueScopes') >= Len(valueScopes)
              /\ valueScopes # <<>>) =>
                 DefinedOnce(Last(valueScopes), valueScopes'[Len(valueScopes)])]_vars

\* The result of an operation was defined in a slot that held the result of
\* a forward reference operation: the operation that used it uses the
\* result, and the forward reference operation is in openForwardRefOps.
C39_Witness ==
    /\ pc = "parseRegions" /\ valueScopes # <<>>
    /\ forwardRefOps = <<>> /\ openForwardRefOps = <<1>>
    /\ Last(valueScopes).values # <<>>
    /\ Last(valueScopes).values[1][1] = "result"
    /\ \E o \in DOMAIN ops : ops[o].operands = <<Last(valueScopes).values[1]>>


-----------------------------------------------------------------------------
\* The entry cached by a failed resolveEntry

\* r is the outcome of resolveEntry for the entry i of its table: when it
\* returned no attribute or type, the entry is still unresolved.
CachedOnSuccess(r, i) == r.entry = "null" => r.entries[i].entry = "null"

\* C40: the attribute or type cached in an entry is set only by a
\* resolveEntry that succeeds: after a resolveEntry that fails, for trailing
\* characters behind the assembly format or for bytes left behind the string
\* of the entry, the entry is still unresolved.
C40_CachedOnSuccess ==
    pc = "parseIRSection" =>
        /\ \A i \in DOMAIN attributes :
               CachedOnSuccess(resolveAttribute(attributes, i - 1), i)
        /\ \A i \in DOMAIN types :
               CachedOnSuccess(resolveType(types, i - 1), i)

=============================================================================
